---- MODULE Spec2Model ----
(***************************************************************************)
(* Transcript verification and repair pipeline of webinar-processor:       *)
(* services/transcript_verifier_service.py and                             *)
(* services/transcript_fixer_service.py.                                   *)
(*                                                                         *)
(* Conventions.  A Python list is a sequence; Python indices are 0-based,  *)
(* so segments[i] is segs[i + 1].  A str whose characters the code reads   *)
(* or builds (a segment text, an issue id) is the sequence of its          *)
(* characters, so "" is << >>; a str the code only compares (a status, a   *)
(* rule id) is a TLA+ string.  An Optional value is None (<< >>) or        *)
(* Some(v) (<< v >>).  A dict is a function over its key set.  A float     *)
(* that is a timestamp is an integer number of seconds; a ratio or a       *)
(* confidence is an integer number of its last rounded digit (hundredths,  *)
(* thousandths, ten-thousandths).  A value whose type the code tests or    *)
(* trips over carries its type: PyList, PyDict, PyStr, PyInt for Python    *)
(* values, JNull, JNum, JStr, JArr, JObj for JSON values.                  *)
(***************************************************************************)
EXTENDS Integers, Sequences, FiniteSets, TLC

VARIABLES
    heap,        \* apply_fixes: the list objects, by reference
    applyArgs,   \* apply_fixes: the arguments as they were at the call
    applyRet,    \* apply_fixes: position and result of the call
    reportArgs,  \* generate_report / parse_report: the arguments
    reportText,  \* the Markdown report: None until it is written
    parseRet,    \* generate_report / parse_report: position and result
    fixArgs,     \* fix_transcript: the arguments
    fix,         \* fix_transcript: position and locals
    tempFiles,   \* the temporary files of the run that exist on disk
    fixCalls,    \* the calls made so far to ffmpeg, the engines and the judge
    verifyArgs,  \* verify_transcript: the arguments
    verify,      \* verify_transcript: position and locals
    llmCalls,    \* the responses get_completion has returned to the verifier, each with its prompt
    mergeArgs,   \* merge_windows: the arguments
    mergeRet,    \* merge_windows: position and result of the call
    heurArgs,    \* run_heuristics: the argument
    heurRet      \* run_heuristics: position and result of the call

applyVars == <<heap, applyArgs, applyRet>>
reportVars == <<reportArgs, reportText, parseRet>>
fixVars == <<fixArgs, fix, tempFiles, fixCalls>>
verifyVars == <<verifyArgs, verify, llmCalls>>
mergeVars == <<mergeArgs, mergeRet>>
heurVars == <<heurArgs, heurRet>>
vars == <<heap, applyArgs, applyRet, reportArgs, reportText, parseRet,
          fixArgs, fix, tempFiles, fixCalls, verifyArgs, verify, llmCalls,
         mergeArgs, mergeRet, heurArgs, heurRet>>

---------------------------------------------------------------------------
(* Bounds of the model *)

NumSegs == 2        \* segments of the transcript handed to apply_fixes
MaxResults == 2     \* FixResults handed to apply_fixes
MaxBlocks == 2      \* fenced blocks of a report handed to parse_report
MaxStart == 1       \* largest time_range.start of a block or an issue
MaxIssues == 2      \* issues handed to generate_report
MaxFixIssues == 2   \* blocks of the report (and segments) handed to fix_transcript
MaxVerifySegs == 2  \* segments handed to verify_transcript
MaxBefore == 2      \* timestamps handed to verify_transcript run from -MaxBefore to 1

---------------------------------------------------------------------------
(* Python values *)

None == << >>
Some(v) == << v >>

Range(s) == {s[i] : i \in DOMAIN s}

\* All sequences over S of length 0..n
SeqsUpTo(S, n) == UNION {[1..k -> S] : k \in 0..n}

EmptyText == << >>

---------------------------------------------------------------------------
(* Issue ids: f"ISS-{issue_counter:03d}" *)

DigitChar(d) == <<"0", "1", "2", "3", "4", "5", "6", "7", "8", "9">>[d + 1]

\* str(n) for n >= 0
RECURSIVE Decimal(_)
Decimal(n) == IF n < 10 THEN <<DigitChar(n)>> ELSE Decimal(n \div 10) \o <<DigitChar(n % 10)>>

\* f"{n:03d}": zero-padded on the left to at least 3 characters
RECURSIVE ZeroPad(_, _)
ZeroPad(cs, width) == IF Len(cs) >= width THEN cs ELSE ZeroPad(<<"0">> \o cs, width)

IssueId(n) == <<"I", "S", "S", "-">> \o ZeroPad(Decimal(n), 3)

---------------------------------------------------------------------------
(* json: the values json.dumps writes and json.loads reads *)

JNull == [j |-> "null"]
JNum(n) == [j |-> "number", num |-> n]
JStr(s) == [j |-> "string", str |-> s]
JArr(a) == [j |-> "array", arr |-> a]
JObj(o) == [j |-> "object", obj |-> o]

\* a Python value whose type the code does not check: a dict of numbers or a number
PyDict(d) == [t |-> "dict", d |-> d]
PyInt(n) == [t |-> "int", n |-> n]
PyList(l) == [t |-> "list", l |-> l]
PyStr(s) == [t |-> "str", s |-> s]

DumpsOptInt(o) == IF o = None THEN JNull ELSE JNum(o[1])
LoadsOptInt(j) == IF j.j = "null" THEN None ELSE Some(j.num)
DumpsIntList(l) == JArr([i \in DOMAIN l |-> JNum(l[i])])
LoadsIntList(j) == [i \in DOMAIN j.arr |-> j.arr[i].num]
DumpsStrList(l) == JArr([i \in DOMAIN l |-> JStr(l[i])])
LoadsStrList(j) == [i \in DOMAIN j.arr |-> j.arr[i].str]
DumpsDyn(p) == IF p.t = "dict" THEN JObj([k \in DOMAIN p.d |-> JNum(p.d[k])]) ELSE JNum(p.n)
LoadsDyn(j) == IF j.j = "object" THEN PyDict([k \in DOMAIN j.obj |-> j.obj[k].num]) ELSE PyInt(j.num)

\* evidence: a dict of numbers and strs
TextKeys == {"repeated_phrase", "unexpected_chars_sample"}
DumpsEvidence(e) == JObj([k \in DOMAIN e |-> IF k \in TextKeys THEN JStr(e[k]) ELSE JNum(e[k])])
LoadsEvidence(j) ==
    [k \in DOMAIN j.obj |-> IF j.obj[k].j = "string" THEN j.obj[k].str ELSE j.obj[k].num]

\* dataclasses.asdict(issue.llm_verdict)
DumpsVerdict(verdict) ==
    JObj([decision |-> JStr(verdict.decision), confidence |-> JNum(verdict.confidence),
          reason |-> JStr(verdict.reason)])

\* the body of a fenced block: text that is not JSON, or the text of a JSON value
InvalidBody == [body |-> "invalid"]
JsonBody(value) == [body |-> "json", value |-> value]

---------------------------------------------------------------------------
(* transcript_fixer_service.py: parse_report *)

\* _ISSUE_BLOCK_RE.findall(report_text): the bodies of the fenced blocks, in
\* document order
FindBlocks(report_text) == [k \in DOMAIN report_text |-> report_text[k].block]

RequiredFields == {"issue_id", "status", "segment_indices", "time_range"}

\* data.get(key, default), read by the loader of the field's type
GetOptInt(data, key) == IF key \in DOMAIN data THEN LoadsOptInt(data[key]) ELSE None
GetStr(data, key) == IF key \in DOMAIN data THEN data[key].str ELSE ""
GetStrList(data, key) == IF key \in DOMAIN data THEN LoadsStrList(data[key]) ELSE << >>
GetEvidence(data, key) == IF key \in DOMAIN data THEN LoadsEvidence(data[key]) ELSE << >>

\* ParsedIssue(issue_id=data["issue_id"], ...)
ParsedIssue(data) ==
    [issue_id |-> data["issue_id"].str,
     status |-> data["status"].str,
     segment_indices |-> LoadsIntList(data["segment_indices"]),
     time_range |-> LoadsDyn(data["time_range"]),
     left_valid_index |-> GetOptInt(data, "left_valid_index"),
     right_valid_index |-> GetOptInt(data, "right_valid_index"),
     severity |-> GetStr(data, "severity"),
     rule_id |-> GetStr(data, "rule_id"),
     speaker_ids |-> GetStrList(data, "speaker_ids"),
     evidence |-> GetEvidence(data, "evidence")]

\* "if status == 'accepted' or (include_open and status == 'open')"
KeepsOpenAlways(status, include_open) == status \in {"accepted", "open"}
KeepsStatus(status, include_open) ==
    status = "accepted" \/ (include_open /\ status = "open")

\* the loop over the blocks: the issues appended so far, or the exception that
\* leaves the loop
RECURSIVE ParseBlocks(_, _, _, _)
ParseBlocks(blocks, include_open, k, issues) ==
    IF k > Len(blocks) THEN [pc |-> "returned", issues |-> issues]
    ELSE LET block == blocks[k] IN
         IF block.body = "invalid"                        \* json.JSONDecodeError: continue
         THEN ParseBlocks(blocks, include_open, k + 1, issues)
         ELSE IF block.value.j # "object"                 \* data.keys()
         THEN [pc |-> "raised", exc |-> "AttributeError"]
         ELSE LET data == block.value.obj IN
              IF ~(RequiredFields \subseteq DOMAIN data)
              THEN ParseBlocks(blocks, include_open, k + 1, issues)
              ELSE IF KeepsStatus(data["status"].str, include_open)
              THEN ParseBlocks(blocks, include_open, k + 1, Append(issues, ParsedIssue(data)))
              ELSE ParseBlocks(blocks, include_open, k + 1, issues)

\* key=lambda i: i.time_range["start"]
SortKey(issue) ==
    IF issue.time_range.t # "dict" THEN [ok |-> FALSE, exc |-> "TypeError"]
    ELSE IF "start" \notin DOMAIN issue.time_range.d THEN [ok |-> FALSE, exc |-> "KeyError"]
    ELSE [ok |-> TRUE, key |-> issue.time_range.d["start"]]

\* list.sort is stable: x goes after every element whose key is <= its own
RECURSIVE InsertBeforeEqual(_, _)
InsertBeforeEqual(sorted, x) ==
    IF sorted = << >> THEN <<x>>
    ELSE IF SortKey(Head(sorted)).key < SortKey(x).key
         THEN <<Head(sorted)>> \o InsertBeforeEqual(Tail(sorted), x)
         ELSE <<x>> \o sorted
RECURSIVE InsertByKey(_, _)
InsertByKey(sorted, x) ==
    IF sorted = << >> THEN <<x>>
    ELSE IF SortKey(Head(sorted)).key <= SortKey(x).key
         THEN <<Head(sorted)>> \o InsertByKey(Tail(sorted), x)
         ELSE <<x>> \o sorted

RECURSIVE SortByStart(_)
SortByStart(issues) ==
    IF issues = << >> THEN << >>
    ELSE InsertByKey(SortByStart(SubSeq(issues, 1, Len(issues) - 1)), issues[Len(issues)])

\* issues.sort(key=...): the keys are computed first, in list order
NoSort(issues) ==
    LET bad == {i \in DOMAIN issues : ~SortKey(issues[i]).ok}
    IN IF bad # {}
       THEN [pc |-> "raised", exc |-> SortKey(issues[CHOOSE i \in bad : \A m \in bad : i <= m]).exc]
       ELSE [pc |-> "returned", issues |-> issues]
SortIssues(issues) ==
    LET bad == {i \in DOMAIN issues : ~SortKey(issues[i]).ok}
    IN IF bad # {}
       THEN [pc |-> "raised", exc |-> SortKey(issues[CHOOSE i \in bad : \A m \in bad : i <= m]).exc]
       ELSE [pc |-> "returned", issues |-> SortByStart(issues)]

parse_report(report_text, include_open) ==
    LET r == ParseBlocks(FindBlocks(report_text), include_open, 1, << >>)
    IN IF r.pc = "raised" THEN r ELSE SortIssues(r.issues)

---------------------------------------------------------------------------
(* transcript_verifier_service.py: generate_report *)

\* _format_time: <<m, s>>, or <<h, m, s>> when the hour is not zero
FormatTime(seconds) ==
    LET m0 == seconds \div 60
        sec == seconds % 60
        h == m0 \div 60
        m == m0 % 60
    IN IF h # 0 THEN <<h, m, sec>> ELSE <<m, sec>>

\* the human-readable summary line of a section; ok is FALSE where the evidence
\* lacks a key the line reads (KeyError)
SummaryLine(issue) ==
    LET has(k) == k \in DOMAIN issue.evidence
        line(keys) == IF \A k \in keys : has(k)
                      THEN [ok |-> TRUE, line |-> Some([k \in keys |-> issue.evidence[k]])]
                      ELSE [ok |-> FALSE]
    IN CASE issue.rule_id = "repetition_loop" ->
              IF has("repeated_phrase") THEN line({"repeated_phrase", "repeat_count"})
              ELSE IF has("overlap_ratio") THEN line({"overlap_ratio"})
              ELSE [ok |-> TRUE, line |-> None]
         [] issue.rule_id = "long_text_no_sentence_markers" ->
              line({"text_length", "punctuation_ratio"})
         [] issue.rule_id = "out_of_alphabet_symbols" -> line({"symbol_ratio"})
         [] OTHER -> [ok |-> TRUE, line |-> None]

\* "LLM confirms ..." / "LLM says no problem ..."
VerdictLine(issue) ==
    IF issue.llm_verdict = None THEN None
    ELSE IF issue.llm_verdict[1].decision = "problem"
         THEN Some([confirms |-> TRUE, confidence |-> issue.llm_verdict[1].confidence])
         ELSE Some([confirms |-> FALSE, confidence |-> issue.llm_verdict[1].confidence,
                    reason |-> issue.llm_verdict[1].reason])

\* issue_dict, as json.dumps writes it
IssueDict(issue) ==
    LET members == [issue_id |-> JStr(issue.issue_id),
                    status |-> JStr(issue.status),
                    severity |-> JStr(issue.severity),
                    rule_id |-> JStr(issue.rule_id),
                    segment_indices |-> DumpsIntList(issue.segment_indices),
                    time_range |-> DumpsDyn(issue.time_range),
                    speaker_ids |-> DumpsStrList(issue.speaker_ids),
                    left_valid_index |-> DumpsOptInt(issue.left_valid_index),
                    right_valid_index |-> DumpsOptInt(issue.right_valid_index),
                    evidence |-> DumpsEvidence(issue.evidence)]
    IN IF issue.llm_verdict = None THEN JObj(members)
       ELSE JObj([k \in DOMAIN members \cup {"llm_verdict"} |->
                    IF k = "llm_verdict" THEN DumpsVerdict(issue.llm_verdict[1]) ELSE members[k]])

\* one section of the report: the heading, the lines under it, the fenced block
Section(issue) ==
    [heading |-> [issue_id |-> issue.issue_id, rule_id |-> issue.rule_id,
                  from |-> FormatTime(issue.time_range.d["start"]),
                  to |-> FormatTime(issue.time_range.d["end"])],
     summary |-> SummaryLine(issue).line,
     llm |-> VerdictLine(issue),
     status |-> issue.status,
     block |-> JsonBody(IssueDict(issue))]

\* generate_report(transcript_path, media_path, segments, issues): the sections
\* of the report, or the KeyError of the first summary line that cannot be
\* written.  The header (paths, date, counts) holds no fenced block.
generate_report(segments, issues) ==
    LET bad == {k \in DOMAIN issues : ~SummaryLine(issues[k]).ok}
    IN IF bad # {} THEN [pc |-> "raised", exc |-> "KeyError"]
       ELSE [pc |-> "returned", report |-> [k \in DOMAIN issues |-> Section(issues[k])]]

---------------------------------------------------------------------------
(* transcript_fixer_service.py: apply_fixes *)

\* copy.deepcopy(segments): a new list object holding equal segments
AliasCopy(h, ref) == [heap |-> h, ref |-> ref]
DeepCopy(h, ref) ==
    [heap |-> [r \in DOMAIN h \cup {"fixed"} |-> IF r = "fixed" THEN h[ref] ELSE h[r]],
     ref |-> "fixed"]

\* fixed[idx]["text"] = text; ok is FALSE where Python raises IndexError
SetText(h, ref, idx, text) ==
    IF idx \in 0..(Len(h[ref]) - 1)
    THEN [ok |-> TRUE, heap |-> [h EXCEPT ![ref][idx + 1].text = text]]
    ELSE [ok |-> FALSE, heap |-> h]

\* for idx in indices[1:]: fixed[idx]["text"] = ""
RECURSIVE BlankRest(_, _, _, _)
BlankRest(h, ref, indices, k) ==
    IF k > Len(indices) THEN [ok |-> TRUE, heap |-> h]
    ELSE LET w == SetText(h, ref, indices[k], EmptyText)
         IN IF w.ok THEN BlankRest(w.heap, ref, indices, k + 1) ELSE w

\* the body of "if indices:" for one fixed result
WriteAllCorrected(h, ref, indices, text) ==
    IF indices = << >> THEN [ok |-> TRUE, heap |-> h]
    ELSE LET w == SetText(h, ref, indices[Len(indices)], text)
         IN IF w.ok THEN BlankRest(w.heap, ref, SubSeq(indices, 1, Len(indices) - 1), 1) ELSE w
WriteFix(h, ref, indices, text) ==
    IF indices = << >> THEN [ok |-> TRUE, heap |-> h]
    ELSE LET w == SetText(h, ref, indices[1], text)
         IN IF w.ok THEN BlankRest(w.heap, ref, indices, 2) ELSE w

\* "if result.outcome != 'fixed' or result.corrected_text is None: continue"
SkipsResult(result) == result.outcome # "fixed" \/ result.corrected_text = None

RECURSIVE ApplyLoop(_, _, _, _, _)
ApplyLoop(h, ref, results, issue_map, k) ==
    IF k > Len(results) THEN [pc |-> "returned", heap |-> h, ref |-> ref]
    ELSE LET result == results[k] IN
         IF SkipsResult(result) THEN ApplyLoop(h, ref, results, issue_map, k + 1)
         ELSE IF result.issue_id \notin DOMAIN issue_map
              THEN [pc |-> "raised", heap |-> h, exc |-> "KeyError"]
              ELSE LET w == WriteFix(h, ref, issue_map[result.issue_id].segment_indices,
                                     result.corrected_text[1])
                   IN IF w.ok THEN ApplyLoop(w.heap, ref, results, issue_map, k + 1)
                      ELSE [pc |-> "raised", heap |-> w.heap, exc |-> "IndexError"]

\* apply_fixes(segments, results, issue_map), segments passed by reference
ApplyFixesLastFirst(h, segRef, results, issue_map) ==
    LET c == DeepCopy(h, segRef)
    IN ApplyLoop(c.heap, c.ref, [k \in DOMAIN results |-> results[Len(results) + 1 - k]],
                 issue_map, 1)
apply_fixes(h, segRef, results, issue_map) ==
    LET c == DeepCopy(h, segRef)
    IN ApplyLoop(c.heap, c.ref, results, issue_map, 1)

---------------------------------------------------------------------------
(* Inputs of apply_fixes *)

IssueIds == {IssueId(1), IssueId(2)}

\* the text of segment i before any fix: i + 1 characters, never empty
OriginalText(i) == [k \in 1..(i + 1) |-> "b"]
NewText == <<"n", "e", "w">>

TestSegments(n) ==
    [i \in 1..n |-> [start |-> i - 1, end |-> i, speaker |-> "SPEAKER_01",
                     text |-> OriginalText(i - 1)]]

\* ParsedIssue(id, "accepted", indices, {"start": 0, "end": 1}, None, None)
MkParsedIssue(id, indices) ==
    [issue_id |-> id, status |-> "accepted", segment_indices |-> indices,
     time_range |-> PyDict([start |-> 0, end |-> 1]),
     left_valid_index |-> None, right_valid_index |-> None,
     severity |-> "", rule_id |-> "", speaker_ids |-> << >>, evidence |-> << >>]

\* ISS-001 covers any list of valid indices, in any order, repeats included (a
\* person may write any list in a report); ISS-002 is a single-segment issue as
\* run_heuristics produces them, its index possibly past the end of the
\* transcript (= NumSegs), or has no index at all.
IndexLists == SeqsUpTo(0..(NumSegs - 1), NumSegs)
SingleIndexLists == {<< >>} \cup {<<i>> : i \in 0..NumSegs}

\* issue_map holds both issues, or ISS-001 alone
IssueMaps ==
    {[id \in {IssueId(1)} |-> MkParsedIssue(id, l)] : l \in IndexLists}
    \cup {[id \in IssueIds |-> MkParsedIssue(id, IF id = IssueId(1) THEN l1 ELSE l2)] :
            l1 \in IndexLists, l2 \in SingleIndexLists}

FixResults ==
    {[issue_id |-> id, outcome |-> o.outcome, corrected_text |-> o.corrected_text] :
        id \in IssueIds,
        o \in {[outcome |-> "fixed", corrected_text |-> Some(NewText)],
               [outcome |-> "fixed", corrected_text |-> Some(EmptyText)],
               [outcome |-> "fixed", corrected_text |-> None],
               [outcome |-> "kept_original", corrected_text |-> Some(NewText)],
               [outcome |-> "failed", corrected_text |-> None]}}

---------------------------------------------------------------------------
(* Reports handed to parse_report, issues handed to generate_report *)

Statuses == {"accepted", "open", "ignored"}

\* the statuses a report block may carry once a person has edited it: the three
\* of the verifier and one that is none of them
ReportStatuses == Statuses \cup {"rejected"}

\* what a time_range member may hold: a mapping with start and end, a mapping
\* without start, a number
TimeRanges ==
    {PyDict([start |-> t, end |-> t + 1]) : t \in 0..MaxStart}
    \cup {PyDict([end |-> 1]), PyInt(5)}

NgramEvidence == [repeated_phrase |-> <<"a", " ", "b", " ", "c">>, repeat_count |-> 5]

BlockShapes ==
    {[kind |-> k] : k \in {"invalid", "array", "no_time_range", "no_status", "minimal"}}
    \cup {[kind |-> "full", status |-> st, time_range |-> tr] :
            st \in ReportStatuses, tr \in TimeRanges}

\* the k-th fenced block of a report, of the given shape
BlockOf(k, shape) ==
    LET required == [issue_id |-> JStr(IssueId(k)),
                     status |-> JStr("accepted"),
                     segment_indices |-> DumpsIntList(<<k - 1>>),
                     time_range |-> DumpsDyn(PyDict([start |-> 0, end |-> 1]))]
    IN CASE shape.kind = "invalid" -> InvalidBody
         [] shape.kind = "array" -> JsonBody(JArr(<<JNum(1), JNum(2)>>))
         [] shape.kind = "no_time_range" ->
              JsonBody(JObj([f \in {"issue_id", "status", "segment_indices"} |-> required[f]]))
         [] shape.kind = "no_status" ->
              JsonBody(JObj([f \in {"issue_id", "time_range", "segment_indices"} |-> required[f]]))
         [] shape.kind = "minimal" -> JsonBody(JObj(required))
         [] shape.kind = "full" ->
              JsonBody(JObj([issue_id |-> JStr(IssueId(k)),
                             status |-> JStr(shape.status),
                             severity |-> JStr("high"),
                             rule_id |-> JStr("repetition_loop"),
                             segment_indices |-> DumpsIntList(<<k - 1>>),
                             time_range |-> DumpsDyn(shape.time_range),
                             speaker_ids |-> DumpsStrList(<<"SPEAKER_01">>),
                             left_valid_index |-> DumpsOptInt(IF k = 1 THEN None ELSE Some(k - 2)),
                             right_valid_index |-> DumpsOptInt(Some(k)),
                             evidence |-> DumpsEvidence(NgramEvidence)]))

ReportOf(shapes) == [k \in DOMAIN shapes |-> [block |-> BlockOf(k, shapes[k])]]

\* rule, evidence and verdict of an issue, as the heuristics and the LLM
\* verifier leave them; "bare" is an issue built by hand with no evidence
IssueVariants == {"ngram", "overlap", "long", "symbols", "bare"}

IssueShapes ==
    [status : Statuses, start : 0..MaxStart, variant : IssueVariants]

\* TranscriptIssue(...), the k-th issue handed to generate_report
MkIssue(k, shape) ==
    [issue_id |-> IssueId(k),
     status |-> shape.status,
     severity |-> IF shape.variant = "symbols" THEN "low" ELSE "high",
     rule_id |-> CASE shape.variant \in {"ngram", "overlap"} -> "repetition_loop"
                   [] shape.variant \in {"long", "bare"} -> "long_text_no_sentence_markers"
                   [] OTHER -> "out_of_alphabet_symbols",
     segment_indices |-> <<k - 1>>,
     time_range |-> PyDict([start |-> shape.start, end |-> shape.start + 1]),
     speaker_ids |-> <<"SPEAKER_01">>,
     left_valid_index |-> IF k = 1 THEN None ELSE Some(k - 2),
     right_valid_index |-> Some(k),
     evidence |-> CASE shape.variant = "ngram" -> NgramEvidence
                    [] shape.variant = "overlap" -> [overlap_ratio |-> 800]
                    [] shape.variant = "long" ->
                         [text_length |-> 250, punctuation_ratio |-> 0,
                          capitalization_ratio |-> 0]
                    [] shape.variant = "symbols" ->
                         [symbol_ratio |-> 2000, unexpected_chars_sample |-> <<"#">>]
                    [] OTHER -> << >>,
     llm_verdict |-> CASE shape.variant = "overlap" ->
                            Some([decision |-> "problem", confidence |-> 90, reason |-> "r"])
                       [] shape.variant = "long" ->
                            Some([decision |-> "no_problem", confidence |-> 80, reason |-> "r"])
                       [] OTHER -> None]

IssuesOf(shapes) == [k \in DOMAIN shapes |-> MkIssue(k, shapes[k])]

ReportIdle ==
    /\ reportArgs = [include_open |-> FALSE, shapes |-> << >>, issues |-> << >>]
    /\ reportText = None
    /\ parseRet = [pc |-> "idle"]

ApplyIdle ==
    /\ applyArgs = [segments |-> << >>, results |-> << >>, issue_map |-> << >>]
    /\ heap = [r \in {"segments"} |-> << >>]
    /\ applyRet = [pc |-> "idle"]

FixIdle ==
    /\ fixArgs = [segments |-> << >>, report_text |-> << >>, include_open |-> FALSE]
    /\ fix = [pc |-> "idle"]
    /\ tempFiles = {}
    /\ fixCalls = << >>

VerifyIdle ==
    /\ verifyArgs = [segments |-> PyList(<< >>), no_llm |-> TRUE]
    /\ verify = [pc |-> "idle"]
    /\ llmCalls = << >>

MergeIdle ==
    /\ mergeArgs = [issues |-> << >>, segments |-> << >>]
    /\ mergeRet = [pc |-> "idle"]

HeurIdle ==
    /\ heurArgs = [shape |-> [kind |-> "none"], segments |-> << >>]
    /\ heurRet = [pc |-> "idle"]

\* the calls no specification but their own makes
OthersIdle == MergeIdle /\ HeurIdle

\* a report of up to MaxBlocks blocks is handed to parse_report
ParseInit ==
    /\ \E shapes \in SeqsUpTo(BlockShapes, MaxBlocks), include_open \in BOOLEAN :
          /\ reportArgs = [include_open |-> include_open, shapes |-> shapes, issues |-> << >>]
          /\ reportText = Some(ReportOf(shapes))
    /\ parseRet = [pc |-> "parse"]
    /\ ApplyIdle
    /\ FixIdle
    /\ VerifyIdle
    /\ OthersIdle

\* up to MaxIssues issues are handed to generate_report, and the report to
\* parse_report(..., include_open=True)
RoundTripInit ==
    /\ \E shapes \in SeqsUpTo(IssueShapes, MaxIssues) :
          reportArgs = [include_open |-> TRUE, shapes |-> shapes,
                        issues |-> IssuesOf(shapes)]
    /\ reportText = None
    /\ parseRet = [pc |-> "generate"]
    /\ ApplyIdle
    /\ FixIdle
    /\ VerifyIdle
    /\ OthersIdle

GenerateReportCall ==
    /\ parseRet.pc = "generate"
    /\ LET r == generate_report(TestSegments(NumSegs), reportArgs.issues)
       IN IF r.pc = "returned"
          THEN /\ reportText' = Some(r.report)
               /\ parseRet' = [pc |-> "parse"]
          ELSE /\ reportText' = reportText
               /\ parseRet' = [pc |-> "raised", exc |-> r.exc, by |-> "generate_report"]
    /\ UNCHANGED reportArgs
    /\ UNCHANGED <<applyVars, fixVars, verifyVars, mergeVars, heurVars>>

ParseReportCall ==
    /\ parseRet.pc = "parse"
    /\ LET r == parse_report(reportText[1], reportArgs.include_open)
       IN parseRet' = IF r.pc = "returned" THEN r
                      ELSE [pc |-> "raised", exc |-> r.exc, by |-> "parse_report"]
    /\ UNCHANGED <<reportArgs, reportText>>
    /\ UNCHANGED <<applyVars, fixVars, verifyVars, mergeVars, heurVars>>

ParseNext == ParseReportCall
RoundTripNext == GenerateReportCall \/ ParseReportCall

SpecParse == ParseInit /\ [][ParseNext]_vars
SpecRoundTrip == RoundTripInit /\ [][RoundTripNext]_vars

---------------------------------------------------------------------------
(* Claims about parse_report and generate_report *)

\* a block that can be turned into an issue: a JSON object with the required
\* fields whose time_range is a mapping with a start
WellFormedBlock(block) ==
    /\ block.body = "json"
    /\ block.value.j = "object"
    /\ RequiredFields \subseteq DOMAIN block.value.obj
    /\ block.value.obj["time_range"].j = "object"
    /\ "start" \in DOMAIN block.value.obj["time_range"].obj

\* C1: parse_report never raises; the blocks that cannot be turned into an
\* issue are skipped and the issues of the well-formed blocks that pass the
\* status filter are returned.
C1_ParseTotal ==
    parseRet.pc \in {"returned", "raised"} =>
        /\ parseRet.pc = "returned"
        /\ {parseRet.issues[m].issue_id : m \in DOMAIN parseRet.issues}
             = {reportText[1][k].block.value.obj["issue_id"].str :
                  k \in {b \in DOMAIN reportText[1] :
                           /\ WellFormedBlock(reportText[1][b].block)
                           /\ KeepsStatus(reportText[1][b].block.value.obj["status"].str,
                                          reportArgs.include_open)}}

\* the ten fields a report block carries are those of the issue
SameFields(parsed, issue) ==
    /\ parsed.issue_id = issue.issue_id
    /\ parsed.status = issue.status
    /\ parsed.severity = issue.severity
    /\ parsed.rule_id = issue.rule_id
    /\ parsed.segment_indices = issue.segment_indices
    /\ parsed.time_range = issue.time_range
    /\ parsed.speaker_ids = issue.speaker_ids
    /\ parsed.left_valid_index = issue.left_valid_index
    /\ parsed.right_valid_index = issue.right_valid_index
    /\ parsed.evidence = issue.evidence

\* generate_report has written the report of issues that are all 'accepted' or
\* 'open', and parse_report(..., include_open=True) has read it
RoundTripDone ==
    /\ parseRet.pc \in {"returned", "raised"}
    /\ reportText # None
    /\ reportArgs.include_open
    /\ \A k \in DOMAIN reportArgs.issues : reportArgs.issues[k].status \in {"accepted", "open"}

\* the place in the input of the issue that a parsed issue came from
InputPlace(parsed) ==
    CHOOSE k \in DOMAIN reportArgs.issues : reportArgs.issues[k].issue_id = parsed.issue_id

ReturnedIds ==
    IF parseRet.pc = "returned"
    THEN {parseRet.issues[m].issue_id : m \in DOMAIN parseRet.issues}
    ELSE {}

\* C11: among the well-formed blocks of a report, a block is returned iff its
\* status is 'accepted', or include_open is true and its status is 'open'.
C11_StatusFilter ==
    parseRet.pc \in {"returned", "raised"} =>
        \A k \in DOMAIN reportText[1] :
            LET block == reportText[1][k].block
            IN WellFormedBlock(block) =>
                 (block.value.obj["issue_id"].str \in ReturnedIds
                    <=> \/ block.value.obj["status"].str = "accepted"
                        \/ /\ reportArgs.include_open
                           /\ block.value.obj["status"].str = "open")

\* the place in the report of the block that a returned issue came from
BlockPlace(parsed) ==
    CHOOSE k \in DOMAIN reportText[1] :
        /\ WellFormedBlock(reportText[1][k].block)
        /\ reportText[1][k].block.value.obj["issue_id"].str = parsed.issue_id

\* C20: parse_report returns its issues sorted ascending by time_range.start,
\* whatever the order of the blocks in the report; issues with equal start keep
\* their order of appearance in the document.
C20_SortedByStart ==
    parseRet.pc = "returned" =>
        \A m1, m2 \in DOMAIN parseRet.issues :
            m1 < m2 =>
                /\ parseRet.issues[m1].time_range.d["start"]
                     <= parseRet.issues[m2].time_range.d["start"]
                /\ parseRet.issues[m1].time_range.d["start"]
                     = parseRet.issues[m2].time_range.d["start"]
                       => BlockPlace(parseRet.issues[m1]) < BlockPlace(parseRet.issues[m2])

\* a report whose first block starts later than its second was parsed: the
\* issue of the second block is returned first
C20_Witness ==
    /\ parseRet.pc = "returned"
    /\ Len(parseRet.issues) = 2
    /\ WellFormedBlock(reportText[1][1].block)
    /\ WellFormedBlock(reportText[1][2].block)
    /\ reportText[1][1].block.value.obj["time_range"].obj["start"].num
         > reportText[1][2].block.value.obj["time_range"].obj["start"].num
    /\ BlockPlace(parseRet.issues[1]) = 2
    /\ BlockPlace(parseRet.issues[2]) = 1

ApplyInit ==
    /\ applyArgs \in [segments : {TestSegments(NumSegs)},
                      results : SeqsUpTo(FixResults, MaxResults),
                      issue_map : IssueMaps]
    /\ heap = [r \in {"segments"} |-> applyArgs.segments]
    /\ applyRet = [pc |-> "call"]
    /\ ReportIdle
    /\ FixIdle
    /\ VerifyIdle
    /\ OthersIdle

ApplyFixesCall ==
    /\ applyRet.pc = "call"
    /\ LET r == apply_fixes(heap, "segments", applyArgs.results, applyArgs.issue_map)
       IN /\ heap' = r.heap
          /\ applyRet' = IF r.pc = "returned" THEN [pc |-> "returned", ref |-> r.ref]
                         ELSE [pc |-> "raised", exc |-> r.exc]
    /\ UNCHANGED applyArgs
    /\ UNCHANGED <<reportVars, fixVars, verifyVars, mergeVars, heurVars>>

ApplyNext == ApplyFixesCall

SpecApply == ApplyInit /\ [][ApplyNext]_vars

---------------------------------------------------------------------------
(* Claims about apply_fixes *)

InputSegments == applyArgs.segments
OutputSegments == heap[applyRet.ref]

\* the index list of the issue a result names (empty when issue_map lacks it)
IndicesOf(result) ==
    IF result.issue_id \in DOMAIN applyArgs.issue_map
    THEN applyArgs.issue_map[result.issue_id].segment_indices
    ELSE << >>

\* indices named by some result with outcome 'fixed'
FixedTargets ==
    UNION {Range(IndicesOf(applyArgs.results[k])) :
             k \in {j \in DOMAIN applyArgs.results : applyArgs.results[j].outcome = "fixed"}}

\* the index list of result k shares no index with that of another fixed result
DisjointFromOtherFixed(k) ==
    \A j \in DOMAIN applyArgs.results :
        (j # k /\ applyArgs.results[j].outcome = "fixed")
        => Range(IndicesOf(applyArgs.results[j])) \cap Range(IndicesOf(applyArgs.results[k])) = {}

NoRepeatedIndex(l) == Cardinality(Range(l)) = Len(l)

\* C3: apply_fixes leaves the input list deep-equal to what it was (also when it
\* raises); what it returns is a list of the same length whose segments keep
\* start, end and speaker, and keep their text at every index that no result
\* with outcome 'fixed' names.
C3_ApplyFixesFrame ==
    applyRet.pc # "call" =>
        /\ heap["segments"] = InputSegments
        /\ applyRet.pc = "returned" =>
              /\ Len(OutputSegments) = Len(InputSegments)
              /\ \A i \in DOMAIN InputSegments :
                    /\ OutputSegments[i].start = InputSegments[i].start
                    /\ OutputSegments[i].end = InputSegments[i].end
                    /\ OutputSegments[i].speaker = InputSegments[i].speaker
                    /\ (i - 1) \notin FixedTargets
                         => OutputSegments[i].text = InputSegments[i].text

\* a call that wrote a fix and also carried a kept_original or failed result
\* whose issue has a segment that no fixed result names
C3_Witness ==
    /\ applyRet.pc = "returned"
    /\ OutputSegments # InputSegments
    /\ \E k \in DOMAIN applyArgs.results :
          /\ applyArgs.results[k].outcome \in {"kept_original", "failed"}
          /\ Range(IndicesOf(applyArgs.results[k])) \ FixedTargets # {}

\* C4 as stated: every 'fixed' result (index list disjoint from those of the
\* other fixed results) has its corrected_text at the first index of its issue
\* and "" at every other index of the issue.
C4_Original ==
    applyRet.pc = "returned" =>
        \A k \in DOMAIN applyArgs.results :
            LET result == applyArgs.results[k]
                indices == IndicesOf(result)
            IN (result.outcome = "fixed" /\ indices # << >> /\ DisjointFromOtherFixed(k))
               => /\ Some(OutputSegments[indices[1] + 1].text) = result.corrected_text
                  /\ \A p \in 2..Len(indices) :
                        OutputSegments[indices[p] + 1].text = EmptyText

\* C4 amended: the same for every 'fixed' result whose corrected_text is not
\* None and whose index list repeats no index.
C4_WriteRule ==
    applyRet.pc = "returned" =>
        \A k \in DOMAIN applyArgs.results :
            LET result == applyArgs.results[k]
                indices == IndicesOf(result)
            IN (/\ result.outcome = "fixed"
                /\ result.corrected_text # None
                /\ indices # << >>
                /\ NoRepeatedIndex(indices)
                /\ DisjointFromOtherFixed(k))
               => /\ OutputSegments[indices[1] + 1].text = result.corrected_text[1]
                  /\ \A p \in 2..Len(indices) :
                        OutputSegments[indices[p] + 1].text = EmptyText

\* a fixed result over two different segments was applied
C4_Witness ==
    /\ applyRet.pc = "returned"
    /\ \E k \in DOMAIN applyArgs.results :
          LET result == applyArgs.results[k]
              indices == IndicesOf(result)
          IN /\ result.outcome = "fixed"
             /\ result.corrected_text = Some(NewText)
             /\ Len(indices) >= 2
             /\ NoRepeatedIndex(indices)
             /\ DisjointFromOtherFixed(k)
             /\ OutputSegments[indices[1] + 1].text = NewText
             /\ OutputSegments[indices[2] + 1].text = EmptyText


---------------------------------------------------------------------------
(* transcript_fixer_service.py: merge_windows *)

Max(a, b) == IF a >= b THEN a ELSE b

\* sorted(set(...)): the elements of S in ascending order
RECURSIVE SortedSet(_)
SortedSet(S) ==
    IF S = {} THEN << >>
    ELSE LET m == CHOOSE x \in S : \A y \in S : x <= y
         IN <<m>> \o SortedSet(S \ {m})

\* RetranscriptionWindow(...) of one issue; the anchors are indices of segments
WindowOf(issue, segments) ==
    [start_time |-> IF issue.left_valid_index # None
                    THEN segments[issue.left_valid_index[1] + 1].start ELSE 0,
     end_time |-> IF issue.right_valid_index # None
                  THEN Some(segments[issue.right_valid_index[1] + 1].end) ELSE None,
     issues |-> <<issue>>,
     segment_indices |-> issue.segment_indices,
     left_valid_index |-> issue.left_valid_index,
     right_valid_index |-> issue.right_valid_index]

\* the "Merge:" branch: win is folded into prev
MergeIntoKnownEnd(prev, win) ==
    [prev EXCEPT
       !.end_time = IF prev.end_time = None THEN win.end_time
                    ELSE IF win.end_time = None THEN prev.end_time
                    ELSE Some(Max(prev.end_time[1], win.end_time[1])),
       !.issues = prev.issues \o win.issues]
MergeIntoUnsorted(prev, win) ==
    [prev EXCEPT
       !.end_time = IF prev.end_time = None \/ win.end_time = None THEN None
                    ELSE Some(Max(prev.end_time[1], win.end_time[1])),
       !.issues = prev.issues \o win.issues,
       !.segment_indices = prev.segment_indices \o win.segment_indices,
       !.right_valid_index =
           IF /\ win.right_valid_index # None
              /\ (prev.right_valid_index = None
                    \/ win.right_valid_index[1] > prev.right_valid_index[1])
           THEN win.right_valid_index ELSE prev.right_valid_index]
MergeInto(prev, win) ==
    [prev EXCEPT
       !.end_time = IF prev.end_time = None \/ win.end_time = None THEN None
                    ELSE Some(Max(prev.end_time[1], win.end_time[1])),
       !.issues = prev.issues \o win.issues,
       !.segment_indices = SortedSet(Range(prev.segment_indices) \cup Range(win.segment_indices)),
       !.right_valid_index =
           IF /\ win.right_valid_index # None
              /\ (prev.right_valid_index = None
                    \/ win.right_valid_index[1] > prev.right_valid_index[1])
           THEN win.right_valid_index ELSE prev.right_valid_index]

\* "if win.start_time <= prev_end"; a prev.end_time of None counts as
\* float('inf')
JoinsWhenOverlapping(prev, win) == prev.end_time = None \/ win.start_time < prev.end_time[1]
JoinsOnlyOpenEnded(prev, win) == prev.end_time = None
Joins(prev, win) == prev.end_time = None \/ win.start_time <= prev.end_time[1]

\* "for win in windows[1:]"
RECURSIVE MergeLoop(_, _, _)
MergeLoop(merged, windows, k) ==
    IF k > Len(windows) THEN merged
    ELSE LET prev == merged[Len(merged)]
             win == windows[k]
         IN IF Joins(prev, win)
            THEN MergeLoop([merged EXCEPT ![Len(merged)] = MergeInto(prev, win)], windows, k + 1)
            ELSE MergeLoop(Append(merged, win), windows, k + 1)

MergeWindowsFromFirst(issues, segments) ==
    IF issues = << >> THEN << >>
    ELSE LET windows == [k \in DOMAIN issues |-> WindowOf(issues[k], segments)]
         IN MergeLoop(<<windows[1]>>, windows, 1)
merge_windows(issues, segments) ==
    IF issues = << >> THEN << >>
    ELSE LET windows == [k \in DOMAIN issues |-> WindowOf(issues[k], segments)]
         IN MergeLoop(<<windows[1]>>, windows, 2)

\* the transcript handed to merge_windows: segment i spans [i, i + 1], as in
\* the tests; an anchor is None or the index of any segment (a person may edit
\* the anchors of a block, and parse_report sorts by time_range.start, not by the
\* anchors)
NumMergeSegs == 4
MaxMergeIssues == 2

Anchors == {None} \cup {Some(i) : i \in 0..(NumMergeSegs - 1)}

MergeShapes == [left : Anchors, right : Anchors]

\* the k-th issue handed to merge_windows, on the segment after its left anchor
\* (on the last segment when the anchor is the last segment)
MergeIssue(k, shape) ==
    [MkParsedIssue(IssueId(k),
                   <<IF shape.left = None THEN 0
                     ELSE IF shape.left[1] + 1 < NumMergeSegs THEN shape.left[1] + 1
                     ELSE NumMergeSegs - 1>>)
       EXCEPT !.left_valid_index = shape.left, !.right_valid_index = shape.right]

MergeInit ==
    /\ \E shapes \in SeqsUpTo(MergeShapes, MaxMergeIssues) :
          mergeArgs = [issues |-> [k \in DOMAIN shapes |-> MergeIssue(k, shapes[k])],
                       segments |-> TestSegments(NumMergeSegs)]
    /\ mergeRet = [pc |-> "call"]
    /\ ApplyIdle
    /\ ReportIdle
    /\ FixIdle
    /\ VerifyIdle
    /\ HeurIdle

MergeWindowsCall ==
    /\ mergeRet.pc = "call"
    /\ mergeRet' = [pc |-> "returned",
                    windows |-> merge_windows(mergeArgs.issues, mergeArgs.segments)]
    /\ UNCHANGED mergeArgs
    /\ UNCHANGED <<applyVars, reportVars, fixVars, verifyVars, heurVars>>

MergeNext == MergeWindowsCall

SpecMerge == MergeInit /\ [][MergeNext]_vars

---------------------------------------------------------------------------
(* Claims about merge_windows *)

MergeDone == mergeRet.pc = "returned"

\* start and end of the window of the k-th issue handed to merge_windows
StartOf(k) == WindowOf(mergeArgs.issues[k], mergeArgs.segments).start_time
EndOf(k) == WindowOf(mergeArgs.issues[k], mergeArgs.segments).end_time

\* t <= e, a null e counting as +infinity
AtMost(t, e) == e = None \/ t <= e[1]

\* the windows of the issues j and k overlap or touch
Overlap(j, k) == AtMost(StartOf(j), EndOf(k)) /\ AtMost(StartOf(k), EndOf(j))

\* the place among the returned windows of the k-th issue
WindowIndex(k) ==
    CHOOSE w \in DOMAIN mergeRet.windows :
        \E p \in DOMAIN mergeRet.windows[w].issues :
            mergeRet.windows[w].issues[p].issue_id = mergeArgs.issues[k].issue_id

\* the first issue of the window that holds the k-th issue
FirstOf(k) ==
    CHOOSE j \in 1..k :
        /\ \A m \in j..k : WindowIndex(m) = WindowIndex(k)
        /\ j > 1 => WindowIndex(j - 1) # WindowIndex(k)

\* the end_time of the window built from the issues j..k: null if one of them
\* has no right anchor, else the largest end
EndOver(j, k) ==
    IF \E m \in j..k : EndOf(m) = None THEN None
    ELSE Some(CHOOSE e \in {EndOf(m)[1] : m \in j..k} : \A m \in j..k : EndOf(m)[1] <= e)

\* the merge rule: the windows hold the issues in input order, and an issue is
\* in the window of the issue before it iff its start is <= the end that window
\* had when the issue was reached
MergeRule ==
    /\ \A k \in DOMAIN mergeArgs.issues :
          \E w \in DOMAIN mergeRet.windows :
              \E p \in DOMAIN mergeRet.windows[w].issues :
                  mergeRet.windows[w].issues[p] = mergeArgs.issues[k]
    /\ \A k \in 2..Len(mergeArgs.issues) :
          /\ WindowIndex(k) \in {WindowIndex(k - 1), WindowIndex(k - 1) + 1}
          /\ WindowIndex(k) = WindowIndex(k - 1)
                <=> AtMost(StartOf(k), EndOver(FirstOf(k - 1), k - 1))

C14_OpenEndedAbsorbs ==
    MergeDone =>
        /\ \A j \in DOMAIN mergeArgs.issues :
              mergeArgs.issues[j].right_valid_index = None =>
                  /\ \A k \in j..Len(mergeArgs.issues) : WindowIndex(k) = WindowIndex(j)
                  /\ mergeRet.windows[WindowIndex(j)].end_time = None
        /\ \A w \in DOMAIN mergeRet.windows :
              mergeRet.windows[w].end_time = None => w = Len(mergeRet.windows)

\* an issue with no right anchor was followed by an issue whose window starts
\* later than every segment but the last and has an end: both are in one
\* window, whose end_time is null
C14_Witness ==
    /\ MergeDone
    /\ Len(mergeArgs.issues) >= 2
    /\ mergeArgs.issues[1].right_valid_index = None
    /\ StartOf(2) = NumMergeSegs - 1
    /\ EndOf(2) # None
    /\ StartOf(2) > StartOf(1)
    /\ WindowIndex(2) = 1
    /\ mergeRet.windows[1].end_time = None

\* the places in the input of the issues the w-th returned window holds
Members(w) == {k \in DOMAIN mergeArgs.issues : WindowIndex(k) = w}

\* the right anchors, not null, of the issues of the w-th window
RightAnchors(w) ==
    {mergeArgs.issues[k].right_valid_index[1] :
        k \in {m \in Members(w) : mergeArgs.issues[m].right_valid_index # None}}

\* C25: a returned window's end_time is null if one of its issues has
\* right_valid_index = null and otherwise the maximum of the issues' end times
\* (segments[right_valid_index].end); its segment_indices is the sorted,
\* duplicate-free union of the issues' segment_indices; its issues list holds
\* the merged issues in encounter order; its right_valid_index is the largest
\* non-null right_valid_index among them, null only if all are null.
C25_MergedFields ==
    MergeDone =>
        \A w \in DOMAIN mergeRet.windows :
            LET win == mergeRet.windows[w]
                first == CHOOSE k \in Members(w) : \A m \in Members(w) : k <= m
            IN /\ Members(w) = first..(first + Len(win.issues) - 1)
               /\ \A p \in DOMAIN win.issues : win.issues[p] = mergeArgs.issues[first + p - 1]
               /\ win.end_time = None
                     <=> \E k \in Members(w) : mergeArgs.issues[k].right_valid_index = None
               /\ win.end_time # None =>
                     /\ \E k \in Members(w) :
                           win.end_time[1]
                             = mergeArgs.segments[mergeArgs.issues[k].right_valid_index[1] + 1].end
                     /\ \A k \in Members(w) :
                           mergeArgs.segments[mergeArgs.issues[k].right_valid_index[1] + 1].end
                             <= win.end_time[1]
               /\ Range(win.segment_indices)
                     = UNION {Range(mergeArgs.issues[k].segment_indices) : k \in Members(w)}
               /\ \A a, b \in DOMAIN win.segment_indices :
                     a < b => win.segment_indices[a] < win.segment_indices[b]
               /\ win.right_valid_index = None <=> RightAnchors(w) = {}
               /\ win.right_valid_index # None =>
                     /\ win.right_valid_index[1] \in RightAnchors(w)
                     /\ \A r \in RightAnchors(w) : r <= win.right_valid_index[1]

\* an issue on segment 2 with right anchor 2 and an issue on segment 0 with
\* right anchor 0, in that order, were merged into one window
C25_Witness ==
    /\ MergeDone
    /\ Len(mergeArgs.issues) = 2
    /\ mergeArgs.issues[1].segment_indices = <<2>>
    /\ mergeArgs.issues[1].right_valid_index = Some(2)
    /\ mergeArgs.issues[2].segment_indices = <<0>>
    /\ mergeArgs.issues[2].right_valid_index = Some(0)
    /\ Len(mergeRet.windows) = 1
    /\ mergeRet.windows[1].segment_indices = <<0, 2>>
    /\ mergeRet.windows[1].right_valid_index = Some(2)
    /\ mergeRet.windows[1].end_time = Some(mergeArgs.segments[3].end)

\* the issues lists of a list of windows, concatenated
RECURSIVE AllIssues(_)
AllIssues(windows) ==
    IF windows = << >> THEN << >> ELSE windows[1].issues \o AllIssues(Tail(windows))

\* C27: concatenating the issues lists of the windows merge_windows returns, in
\* window order, gives exactly the input list in its input order, and no
\* window is empty.
C27_NoIssueLost ==
    MergeDone =>
        /\ AllIssues(mergeRet.windows) = mergeArgs.issues
        /\ \A w \in DOMAIN mergeRet.windows : mergeRet.windows[w].issues # << >>
        /\ Len(mergeRet.windows) <= Len(mergeArgs.issues)

\* two issues were returned in two windows of one issue each
C27_Witness ==
    /\ MergeDone
    /\ Len(mergeArgs.issues) = 2
    /\ Len(mergeRet.windows) = 2
    /\ mergeRet.windows[1].issues = <<mergeArgs.issues[1]>>
    /\ mergeRet.windows[2].issues = <<mergeArgs.issues[2]>>

\* the issues handed to merge_windows are in ascending order of
\* time_range.start, the order parse_report returns
SortedByStart ==
    \A k \in 2..Len(mergeArgs.issues) :
        mergeArgs.issues[k - 1].time_range.d["start"] <= mergeArgs.issues[k].time_range.d["start"]

\* the returned windows are in ascending start_time order and pairwise disjoint:
\* of two windows the earlier has an end_time, strictly before the start_time of
\* the later
Disjoint ==
    \A i, j \in DOMAIN mergeRet.windows :
        i < j =>
            /\ mergeRet.windows[i].start_time <= mergeRet.windows[j].start_time
            /\ mergeRet.windows[i].end_time # None
            /\ mergeRet.windows[i].end_time[1] < mergeRet.windows[j].start_time

\* C28 as stated: for any issue list sorted ascending by time_range.start with
\* anchor indices inside the transcript, the returned windows are in ascending
\* start_time order and pairwise disjoint in time.
C28_Original == (MergeDone /\ SortedByStart) => Disjoint

\* C28 amended: for any issue list with anchor indices inside the transcript in
\* which the window of every issue starts no later than it ends (a null end
\* counting as +infinity), the returned windows are in ascending start_time
\* order and pairwise disjoint in time.
C28_WindowsDisjoint ==
    (MergeDone /\ \A k \in DOMAIN mergeArgs.issues : AtMost(StartOf(k), EndOf(k))) => Disjoint

\* two issues whose windows start before they end were returned in two windows,
\* the first ending before the second starts
C28_Witness ==
    /\ MergeDone
    /\ \A k \in DOMAIN mergeArgs.issues : AtMost(StartOf(k), EndOf(k))
    /\ Len(mergeRet.windows) = 2
    /\ mergeRet.windows[1].start_time < mergeRet.windows[1].end_time[1]
    /\ mergeRet.windows[1].end_time[1] < mergeRet.windows[2].start_time

---------------------------------------------------------------------------
(* str methods used by both services *)

\* the characters str.strip() and str.split() take for whitespace
IsSpace(c) == c \in {" ", "\t", "\n"}

\* the elements of s at the indices in S, in the order of s
Pick(s, S) ==
    [k \in 1..Cardinality(S) |-> s[CHOOSE i \in S : Cardinality({j \in S : j < i}) = k - 1]]

\* str.strip(): from the first to the last character that is not whitespace
Strip(s) ==
    LET inked == {i \in DOMAIN s : ~IsSpace(s[i])}
    IN IF inked = {} THEN << >>
       ELSE SubSeq(s, CHOOSE i \in inked : \A j \in inked : i <= j,
                      CHOOSE i \in inked : \A j \in inked : j <= i)

\* str.split(): the maximal runs of characters that are not whitespace
Split(s) ==
    LET starts == {i \in DOMAIN s : ~IsSpace(s[i]) /\ (i = 1 \/ IsSpace(s[i - 1]))}
        ends == {i \in DOMAIN s : ~IsSpace(s[i]) /\ (i = Len(s) \/ IsSpace(s[i + 1]))}
        first == Pick([i \in DOMAIN s |-> i], starts)
        last == Pick([i \in DOMAIN s |-> i], ends)
    IN [k \in DOMAIN first |-> SubSeq(s, first[k], last[k])]

\* " ".join(words)
RECURSIVE Join(_)
Join(words) ==
    IF words = << >> THEN << >>
    ELSE IF Len(words) = 1 THEN words[1]
    ELSE words[1] \o <<" ">> \o Join(Tail(words))

---------------------------------------------------------------------------
(* transcript_fixer_service.py: fix_transcript *)

\* the transcript handed to fix_transcript: segment i spans [2i, 2i + 1]
FixSegments(n) ==
    [i \in 1..n |-> [start |-> 2 * (i - 1), end |-> 2 * (i - 1) + 1,
                     speaker |-> "SPEAKER_01", text |-> OriginalText(i - 1)]]

\* the anchors of a block: the neighbours of the segment as run_heuristics
\* writes them, the segment itself, or the last and the first segment of the
\* transcript (a person may edit the block)
FixAnchors == {"neighbours", "own", "inverted"}

\* the segment_indices of a block that names the first segment: that segment
\* alone (a second rule flagged it), the block's own segment and then the
\* first, or the first segment twice
FixIndexLists == {"first", "own_first", "first_twice"}

\* a block is an issue with a status and anchors, or cannot be turned into an
\* issue: its body is not JSON, is a JSON array, or lacks the status; or it is
\* an accepted issue that names the first segment
FixBlockShapes ==
    [status : Statuses, anchors : FixAnchors]
    \cup [malformed : {"invalid", "array", "no_status"}]
    \cup [status : {"accepted"}, anchors : {"neighbours"}, indices : FixIndexLists]

\* the k-th block of the report: an issue on segment k - 1 of n, or on the
\* index list the shape names
FixBlockOf(k, shape, n) ==
    IF "malformed" \in DOMAIN shape THEN BlockOf(k, [kind |-> shape.malformed]) ELSE
    LET idx == k - 1
        left == CASE shape.anchors = "neighbours" -> IF idx > 0 THEN Some(idx - 1) ELSE None
                  [] shape.anchors = "own" -> Some(idx)
                  [] OTHER -> Some(n - 1)
        right == CASE shape.anchors = "neighbours" -> IF idx < n - 1 THEN Some(idx + 1) ELSE None
                   [] shape.anchors = "own" -> Some(idx)
                   [] OTHER -> Some(0)
    IN JsonBody(JObj([issue_id |-> JStr(IssueId(k)),
                      status |-> JStr(shape.status),
                      segment_indices |->
                          DumpsIntList(IF "indices" \notin DOMAIN shape THEN <<idx>>
                                       ELSE CASE shape.indices = "first" -> <<0>>
                                              [] shape.indices = "own_first" -> <<idx, 0>>
                                              [] OTHER -> <<0, 0>>),
                      time_range |-> DumpsDyn(PyDict([start |-> 2 * idx, end |-> 2 * idx + 1])),
                      left_valid_index |-> DumpsOptInt(left),
                      right_valid_index |-> DumpsOptInt(right)]))

\* what one call of _judge_and_reconstruct does: it returns the verdict the LLM
\* wrote (a dict, with has_problem or without it, its corrected_text a str,
\* null or absent), or raises (get_completion fails, json.loads rejects the
\* response)
JudgeAnswers ==
    {[kind |-> "verdict", verdict |-> [has_problem |-> TRUE, corrected_text |-> JStr(NewText)]],
     [kind |-> "verdict", verdict |-> [has_problem |-> TRUE, corrected_text |-> JNull]],
     [kind |-> "verdict", verdict |-> [has_problem |-> TRUE]],
     [kind |-> "verdict", verdict |-> [has_problem |-> FALSE]],
     [kind |-> "verdict", verdict |-> [corrected_text |-> JStr(NewText)]],
     [kind |-> "raises", exc |-> "ConnectionError"],
     [kind |-> "raises", exc |-> "JSONDecodeError"]}

\* {i.issue_id: i for i in issues}: a later issue replaces an earlier one of
\* the same id
IssueMapOf(issues) ==
    [id \in {issues[k].issue_id : k \in DOMAIN issues} |->
        issues[CHOOSE k \in DOMAIN issues :
                 /\ issues[k].issue_id = id
                 /\ \A m \in DOMAIN issues : issues[m].issue_id = id => m <= k]]

\* FixResult(..., outcome="failed", reasoning="Invalid window duration")
FailedResultKept(issue) ==
    [issue_id |-> issue.issue_id, outcome |-> "kept_original", corrected_text |-> None,
     reasoning |-> ""]
FailedResult(issue) ==
    [issue_id |-> issue.issue_id, outcome |-> "failed", corrected_text |-> None,
     reasoning |-> "Invalid window duration"]

\* the FixResult appended for a verdict of the judge
ResultOfFixedOnText(issue, verdict) ==
    IF "corrected_text" \in DOMAIN verdict
    THEN [issue_id |-> issue.issue_id, outcome |-> "fixed",
          corrected_text |-> IF verdict["corrected_text"].j = "null" THEN None
                             ELSE Some(verdict["corrected_text"].str),
          reasoning |-> ""]
    ELSE [issue_id |-> issue.issue_id, outcome |-> "kept_original",
          corrected_text |-> None, reasoning |-> ""]
ResultOf(issue, verdict) ==
    IF "has_problem" \in DOMAIN verdict /\ verdict["has_problem"]
    THEN [issue_id |-> issue.issue_id, outcome |-> "fixed",
          corrected_text |-> IF "corrected_text" \notin DOMAIN verdict THEN Some(EmptyText)
                             ELSE IF verdict["corrected_text"].j = "null" THEN None
                             ELSE Some(verdict["corrected_text"].str),
          reasoning |-> ""]
    ELSE [issue_id |-> issue.issue_id, outcome |-> "kept_original",
          corrected_text |-> None, reasoning |-> ""]

\* text[:120] + ("..." if len(text) > 120 else "")
PreviewLen == 120
Preview(text) ==
    IF Len(text) > PreviewLen THEN SubSeq(text, 1, PreviewLen) \o <<".", ".", ".">> ELSE text

\* _generate_fix_report(transcript_path, report_path, total_segments,
\* total_issues, processed, results): the numbers of the header and, per result,
\* the heading and the Corrected and Reasoning lines (written when the field is
\* truthy)
_generate_fix_report(total_segments, total_issues, processed, results) ==
    LET Count(outcome) == Cardinality({r \in DOMAIN results : results[r].outcome = outcome})
    IN [total_segments |-> total_segments,
        total_issues |-> total_issues,
        processed |-> processed,
        fixed_count |-> Count("fixed"),
        kept_count |-> Count("kept_original"),
        failed_count |-> Count("failed"),
        sections |-> [r \in DOMAIN results |->
                        [issue_id |-> results[r].issue_id,
                         outcome |-> results[r].outcome,
                         corrected |-> IF results[r].corrected_text \notin {None, Some(EmptyText)}
                                       THEN Some(Preview(results[r].corrected_text[1]))
                                       ELSE None,
                         reasoning |-> IF results[r].reasoning # ""
                                       THEN Some(results[r].reasoning) ELSE None]]]

\* an exception leaves fix_transcript
Raise(f, exc) == [f EXCEPT !.pc = "raised", !.exc = Some(exc)]

\* the end of one pass of "for window in windows"
NextWindow(f) ==
    [f EXCEPT !.w = f.w + 1,
              !.pc = IF f.w + 1 > Len(f.windows) THEN "apply" ELSE "window"]

\* "finally: if os.path.exists(wav_path): os.unlink(wav_path)"; raising tells
\* whether an exception is on its way out of the try block
FinallyOnSuccessOnly(files, wav_path, raising) ==
    IF raising THEN files ELSE files \ {wav_path}
Finally(files, wav_path, raising) == files \ {wav_path}

\* "except Exception as e: logger.error(...); raise"
JudgeFailedSkipsIssue(f, issue, exc) ==
    [f EXCEPT !.results = Append(@, [issue_id |-> issue.issue_id, outcome |-> "failed",
                                      corrected_text |-> None, reasoning |-> exc])]
JudgeFailed(f, issue, exc) == Raise(f, exc)

\* " ".join(segments[i]["text"].strip() for i in indices if i < len(segments))
_get_segment_text(segments, indices) ==
    LET kept == Pick(indices, {k \in DOMAIN indices : indices[k] < Len(segments)})
    IN Join([k \in DOMAIN kept |-> Strip(segments[kept[k] + 1].text)])

\* one call made to ffmpeg, to an engine or to the judge
Call(op, w, issue, outcome) == [op |-> op, window |-> w, issue |-> issue, outcome |-> outcome]

FixInit ==
    /\ \E shapes \in SeqsUpTo(FixBlockShapes, MaxFixIssues), include_open \in BOOLEAN :
          fixArgs = [segments |-> FixSegments(MaxFixIssues),
                     report_text |-> [k \in DOMAIN shapes |->
                                        [block |-> FixBlockOf(k, shapes[k], MaxFixIssues)]],
                     include_open |-> include_open]
    /\ fix = [pc |-> "start", issues |-> << >>, issue_map |-> << >>, windows |-> << >>,
              w |-> 0, i |-> 0, results |-> << >>, wav_path |-> None,
              exc |-> None, fixed |-> None, report |-> None,
              cmd |-> "running", written |-> None]
    /\ tempFiles = {}
    /\ fixCalls = << >>
    /\ ApplyIdle
    /\ ReportIdle
    /\ VerifyIdle
    /\ OthersIdle

\* parse_report, the early return, issue_map and merge_windows
FixStart ==
    /\ fix.pc = "start"
    /\ LET r == parse_report(fixArgs.report_text, fixArgs.include_open)
       IN fix' = IF r.pc = "raised" THEN Raise(fix, r.exc)
                 ELSE IF r.issues = << >>
                 THEN [fix EXCEPT !.pc = "returned", !.fixed = Some(fixArgs.segments),
                                  !.report = Some(_generate_fix_report(
                                                    Len(fixArgs.segments), 0, 0, << >>))]
                 ELSE [fix EXCEPT !.pc = "window",
                                  !.issues = r.issues,
                                  !.issue_map = IssueMapOf(r.issues),
                                  !.windows = merge_windows(r.issues, fixArgs.segments),
                                  !.w = 1]
    /\ UNCHANGED <<fixArgs, tempFiles, fixCalls>>
    /\ UNCHANGED <<applyVars, reportVars, verifyVars, mergeVars, heurVars>>

\* the head of the loop body: the duration test, then the temporary file
FixWindow ==
    /\ fix.pc = "window"
    /\ LET window == fix.windows[fix.w]
           end_time == IF window.end_time = None
                       THEN fixArgs.segments[Len(fixArgs.segments)].end
                       ELSE window.end_time[1]
           duration == end_time - window.start_time
       IN IF duration <= 0
          THEN /\ fix' = NextWindow([fix EXCEPT !.results =
                            @ \o [k \in DOMAIN window.issues |-> FailedResult(window.issues[k])]])
               /\ UNCHANGED tempFiles
          ELSE /\ fix' = [fix EXCEPT !.pc = "extract", !.wav_path = Some(fix.w), !.i = 1]
               /\ tempFiles' = tempFiles \cup {fix.w}
    /\ UNCHANGED <<fixArgs, fixCalls>>
    /\ UNCHANGED <<applyVars, reportVars, verifyVars, mergeVars, heurVars>>

\* extract_audio_slice(media_path, wav_path, ...): ffmpeg writes the slice, or
\* fails and leaves the file or not
FixExtract ==
    /\ fix.pc = "extract"
    /\ \E outcome \in {"ok", "CalledProcessError"}, left \in BOOLEAN :
          /\ fixCalls' = Append(fixCalls, Call("extract", fix.w, None, outcome))
          /\ IF outcome = "ok"
             THEN /\ left
                  /\ fix' = [fix EXCEPT !.pc = "whisper"]
                  /\ UNCHANGED tempFiles
             ELSE /\ fix' = Raise(fix, outcome)
                  /\ tempFiles' = Finally(IF left THEN tempFiles ELSE tempFiles \ {fix.wav_path[1]},
                                          fix.wav_path[1], TRUE)
    /\ UNCHANGED fixArgs
    /\ UNCHANGED <<applyVars, reportVars, verifyVars, mergeVars, heurVars>>

\* retranscription.transcribe_whisper(wav_path)
FixWhisper ==
    /\ fix.pc = "whisper"
    /\ \E outcome \in {"ok", "RuntimeError"} :
          /\ fixCalls' = Append(fixCalls, Call("whisper", fix.w, None, outcome))
          /\ IF outcome = "ok"
             THEN /\ fix' = [fix EXCEPT !.pc = "qwen3"]
                  /\ UNCHANGED tempFiles
             ELSE /\ fix' = Raise(fix, outcome)
                  /\ tempFiles' = Finally(tempFiles, fix.wav_path[1], TRUE)
    /\ UNCHANGED fixArgs
    /\ UNCHANGED <<applyVars, reportVars, verifyVars, mergeVars, heurVars>>

\* retranscription.transcribe_qwen3(wav_path)
FixQwen3 ==
    /\ fix.pc = "qwen3"
    /\ \E outcome \in {"ok", "RuntimeError"} :
          /\ fixCalls' = Append(fixCalls, Call("qwen3", fix.w, None, outcome))
          /\ IF outcome = "ok"
             THEN /\ fix' = [fix EXCEPT !.pc = "judge"]
                  /\ UNCHANGED tempFiles
             ELSE /\ fix' = Raise(fix, outcome)
                  /\ tempFiles' = Finally(tempFiles, fix.wav_path[1], TRUE)
    /\ UNCHANGED fixArgs
    /\ UNCHANGED <<applyVars, reportVars, verifyVars, mergeVars, heurVars>>

\* one pass of "for issue in window.issues": the judge call, with the text it
\* is given and the answer it returns, and its result; the
\* finally clause when the pass is the last one or an exception leaves the loop
FixJudge ==
    /\ fix.pc = "judge"
    /\ \E answer \in JudgeAnswers :
          LET window == fix.windows[fix.w]
              issue == window.issues[fix.i]
              f == IF answer.kind = "raises" THEN JudgeFailed(fix, issue, answer.exc)
                   ELSE [fix EXCEPT !.results = Append(@, ResultOf(issue, answer.verdict))]
          IN /\ fixCalls' = Append(fixCalls,
                                   Call("judge", fix.w, Some(issue.issue_id),
                                        IF answer.kind = "raises" THEN answer.exc ELSE "ok")
                                     @@ [answer |-> answer,
                                         original_text |->
                                             _get_segment_text(fixArgs.segments,
                                                               issue.segment_indices)])
             /\ IF f.pc = "raised"
                THEN /\ fix' = f
                     /\ tempFiles' = Finally(tempFiles, fix.wav_path[1], TRUE)
                ELSE IF fix.i < Len(window.issues)
                THEN /\ fix' = [f EXCEPT !.i = fix.i + 1]
                     /\ UNCHANGED tempFiles
                ELSE /\ fix' = NextWindow(f)
                     /\ tempFiles' = Finally(tempFiles, fix.wav_path[1], FALSE)
    /\ UNCHANGED fixArgs
    /\ UNCHANGED <<applyVars, reportVars, verifyVars, mergeVars, heurVars>>

\* fixed_segments = apply_fixes(segments, results, issue_map), the fix report,
\* and the return
FixApply ==
    /\ fix.pc = "apply"
    /\ LET r == apply_fixes([ref \in {"segments"} |-> fixArgs.segments], "segments",
                            fix.results, fix.issue_map)
       IN fix' = IF r.pc = "returned"
                 THEN [fix EXCEPT !.pc = "returned", !.fixed = Some(r.heap[r.ref]),
                                  !.report = Some(_generate_fix_report(
                                                    Len(fixArgs.segments), Len(fix.issues),
                                                    Len(fix.issues), fix.results))]
                 ELSE Raise(fix, r.exc)
    /\ UNCHANGED <<fixArgs, tempFiles, fixCalls>>
    /\ UNCHANGED <<applyVars, reportVars, verifyVars, mergeVars, heurVars>>

\* cmd_transcript_fix.py, after the call of fix_transcript: the fixed transcript
\* and the fix report are written when it returned; click.Abort() when it raised
\* ValueError, LLMError or JSONDecodeError; any other exception leaves the
\* command
TranscriptFixCmd ==
    /\ fix.pc \in {"returned", "raised"}
    /\ fix.cmd = "running"
    /\ fix' = IF fix.pc = "returned"
              THEN [fix EXCEPT !.cmd = "written", !.written = fix.report]
              ELSE IF fix.exc[1] \in {"ValueError", "LLMError", "JSONDecodeError"}
              THEN [fix EXCEPT !.cmd = "aborted"]
              ELSE [fix EXCEPT !.cmd = "raised"]
    /\ UNCHANGED <<fixArgs, tempFiles, fixCalls>>
    /\ UNCHANGED <<applyVars, reportVars, verifyVars, mergeVars, heurVars>>

FixNext ==
    \/ FixStart
    \/ FixWindow
    \/ FixExtract
    \/ FixWhisper
    \/ FixQwen3
    \/ FixJudge
    \/ FixApply
    \/ TranscriptFixCmd

SpecFix == FixInit /\ [][FixNext]_vars

---------------------------------------------------------------------------
(* Claims about fix_transcript *)

\* the positions inside the processing of one window, between the creation of
\* its temporary file and the end of its finally clause
InWindow == {"extract", "whisper", "qwen3", "judge"}

\* the calls that ended the run by raising
RaisedCalls(op) ==
    {p \in DOMAIN fixCalls : fixCalls[p].op = op /\ fixCalls[p].outcome # "ok"}

\* C5: a temporary file exists only while its window is being processed: once
\* control has left the window (to the next window, to apply_fixes, by
\* returning or by raising) no temporary file of the run exists, and inside a
\* window only that window's file exists.
C5_TempFilesRemoved ==
    /\ fix.pc \notin InWindow => tempFiles = {}
    /\ fix.pc \in InWindow => tempFiles = {fix.wav_path[1]}

\* a first window was processed to its end, the judge raised in a second one,
\* and fix_transcript has raised
C5_Witness ==
    /\ fix.pc = "raised"
    /\ \E p \in RaisedCalls("judge") : fixCalls[p].window = 2
    /\ \E p \in DOMAIN fixCalls : fixCalls[p].op = "judge" /\ fixCalls[p].window = 1
    /\ tempFiles = {}

\* C6: once a judge call has raised, it is the last call of the run (no later
\* extraction, transcription or judge call), fix_transcript has raised that
\* exception and has returned no segment list.
C6_JudgeFailureFatal ==
    \A p \in RaisedCalls("judge") :
        /\ p = Len(fixCalls)
        /\ fix.pc = "raised"
        /\ fix.exc = Some(fixCalls[p].outcome)
        /\ fix.fixed = None

\* the judge raised on the first issue of a run that had more work to do: a
\* second issue in the same window, or a second window
C6_Witness ==
    /\ fix.pc = "raised"
    /\ RaisedCalls("judge") = {Len(fixCalls)}
    /\ fixCalls[Len(fixCalls)].window = 1
    /\ fixCalls[Len(fixCalls)].issue = Some(fix.windows[1].issues[1].issue_id)
    /\ Len(fix.issues) >= 2

\* the well-formed blocks of the report handed to fix_transcript
FixIssues == {k \in DOMAIN fixArgs.report_text : WellFormedBlock(fixArgs.report_text[k].block)}
FixBlock(k) == fixArgs.report_text[k].block.value.obj

\* the issues a person has not accepted
Unreviewed == {k \in FixIssues : FixBlock(k)["status"].str \in {"open", "ignored"}}

\* the issues whose segment_indices hold the 0-based index i
Referencing(i) ==
    {k \in FixIssues : i \in Range(LoadsIntList(FixBlock(k)["segment_indices"]))}

\* C12: with include_open = false, an issue whose report status is 'open' or
\* 'ignored' gets no judge call and no FixResult, and every segment referenced
\* only by such issues has the same text in the returned transcript as in the
\* input.
C12_UnreviewedNeverFixed ==
    ~fixArgs.include_open /\ fix.pc # "idle" =>
        /\ \A k \in Unreviewed :
              /\ \A p \in DOMAIN fixCalls :
                    fixCalls[p].op = "judge" => fixCalls[p].issue # Some(FixBlock(k)["issue_id"].str)
              /\ \A r \in DOMAIN fix.results :
                    fix.results[r].issue_id # FixBlock(k)["issue_id"].str
        /\ fix.pc = "returned" =>
              \A i \in 0..(Len(fixArgs.segments) - 1) :
                  Referencing(i) # {} /\ Referencing(i) \subseteq Unreviewed =>
                      fix.fixed[1][i + 1].text = fixArgs.segments[i + 1].text

\* a run with include_open = false over an accepted and an open issue has
\* returned: the accepted issue was fixed and its segment rewritten
C12_Witness ==
    /\ ~fixArgs.include_open
    /\ fix.pc = "returned"
    /\ FixIssues = {1, 2}
    /\ FixBlock(1)["status"].str = "accepted"
    /\ FixBlock(2)["status"].str = "open"
    /\ \E r \in DOMAIN fix.results :
          fix.results[r].issue_id = IssueId(1) /\ fix.results[r].outcome = "fixed"
    /\ fix.fixed[1][1].text = NewText
    /\ fix.fixed[1][2].text = fixArgs.segments[2].text

\* the resolved duration of the w-th window: end_time, or the last segment's
\* end when end_time is null, minus start_time
Duration(w) ==
    (IF fix.windows[w].end_time = None THEN fixArgs.segments[Len(fixArgs.segments)].end
     ELSE fix.windows[w].end_time[1]) - fix.windows[w].start_time

\* the loop has left the w-th window behind
Passed(w) == fix.w > w

\* the results appended for an issue
ResultsOf(issue) == {r \in DOMAIN fix.results : fix.results[r].issue_id = issue.issue_id}

\* C15: for every window whose resolved duration is <= 0, each issue of the
\* window gets exactly one FixResult, with outcome 'failed' and reasoning
\* 'Invalid window duration'; no extraction, transcription or judge call is made
\* for that window; and the later windows are still processed (the window does
\* not end the run: the loop goes on to the next window, and a run that returns
\* has extracted the audio of every later window of positive duration).
C15_DegenerateWindowLocal ==
    fix.pc \notin {"idle", "start"} =>
        \A w \in DOMAIN fix.windows :
            Duration(w) <= 0 =>
                /\ \A p \in DOMAIN fixCalls : fixCalls[p].window # w
                /\ ~(fix.pc = "raised" /\ fix.w = w)
                /\ Passed(w) =>
                      \A k \in DOMAIN fix.windows[w].issues :
                          /\ Cardinality(ResultsOf(fix.windows[w].issues[k])) = 1
                          /\ \A r \in ResultsOf(fix.windows[w].issues[k]) :
                                /\ fix.results[r].outcome = "failed"
                                /\ fix.results[r].reasoning = "Invalid window duration"
                /\ fix.pc = "returned" =>
                      \A v \in (w + 1)..Len(fix.windows) :
                          \/ Duration(v) <= 0
                          \/ \E p \in DOMAIN fixCalls :
                                fixCalls[p].op = "judge" /\ fixCalls[p].window = v

\* a run of two windows has returned: the first had a duration <= 0, the
\* second was judged
C15_Witness ==
    /\ fix.pc = "returned"
    /\ Len(fix.windows) = 2
    /\ Duration(1) <= 0
    /\ Duration(2) > 0
    /\ fix.results[1].outcome = "failed"
    /\ \E p \in DOMAIN fixCalls : fixCalls[p].op = "judge" /\ fixCalls[p].window = 2

\* C16: a run aborted by a judge error still surfaces a fix report, and that
\* report lists the results of the issues processed before the abort.
C16_AbortSurfacesReport ==
    RaisedCalls("judge") # {} /\ fix.cmd # "running" =>
        /\ fix.written # None
        /\ [r \in DOMAIN fix.written[1].sections |-> fix.written[1].sections[r].issue_id]
             = [r \in DOMAIN fix.results |-> fix.results[r].issue_id]

\* nothing to work on: every block of the report is malformed or has a status
\* that is filtered out (a report without blocks included)
EmptyWorkList ==
    \A k \in FixIssues : ~KeepsStatus(FixBlock(k)["status"].str, fixArgs.include_open)

\* C17: when the report yields no issue (no blocks, only malformed blocks, or
\* only statuses that are filtered out), fix_transcript returns segments equal
\* to the input and a fix report stating 0 processed issues, and makes no audio
\* extraction, transcription or LLM call.
C17_EmptyWorkList ==
    EmptyWorkList /\ fix.pc \notin {"idle", "start"} =>
        /\ fix.pc = "returned"
        /\ fix.fixed = Some(fixArgs.segments)
        /\ fix.report # None
        /\ fix.report[1].processed = 0
        /\ fix.report[1].sections = << >>
        /\ fixCalls = << >>

\* the judge calls made for an issue
JudgeCalls(issue) ==
    {p \in DOMAIN fixCalls :
        fixCalls[p].op = "judge" /\ fixCalls[p].issue = Some(issue.issue_id)}

\* a judge call returned a verdict whose has_problem is truthy
SaysProblem(p) ==
    /\ fixCalls[p].answer.kind = "verdict"
    /\ "has_problem" \in DOMAIN fixCalls[p].answer.verdict
    /\ fixCalls[p].answer.verdict["has_problem"]

\* C26: when fix_transcript returns, its results hold exactly one FixResult for
\* each issue parse_report returned, in window order then issue order within
\* the window, with outcome 'fixed' iff the judge's verdict has a truthy
\* has_problem, 'kept_original' iff the judge answered without it, and 'failed'
\* iff the issue's window had a duration <= 0; the fixed, kept_original and
\* failed counts of the fix report sum to the number of processed issues.
C26_OneResultPerIssue ==
    fix.pc = "returned" =>
        /\ AllIssues(fix.windows) = fix.issues
        /\ Len(fix.results) = Len(fix.issues)
        /\ \A r \in DOMAIN fix.results :
              LET issue == AllIssues(fix.windows)[r]
                  w == CHOOSE v \in DOMAIN fix.windows :
                          \E p \in DOMAIN fix.windows[v].issues : fix.windows[v].issues[p] = issue
              IN /\ fix.results[r].issue_id = issue.issue_id
                 /\ fix.results[r].outcome \in {"fixed", "kept_original", "failed"}
                 /\ fix.results[r].outcome = "failed" <=> Duration(w) <= 0
                 /\ Cardinality(JudgeCalls(issue)) = IF Duration(w) <= 0 THEN 0 ELSE 1
                 /\ fix.results[r].outcome = "fixed"
                       <=> \E p \in JudgeCalls(issue) : SaysProblem(p)
                 /\ fix.results[r].outcome = "kept_original"
                       <=> \E p \in JudgeCalls(issue) :
                              fixCalls[p].answer.kind = "verdict" /\ ~SaysProblem(p)
        /\ fix.report[1].processed = Len(fix.issues)
        /\ fix.report[1].fixed_count + fix.report[1].kept_count + fix.report[1].failed_count
             = fix.report[1].processed

\* a run over two issues has returned: the judge found a problem in the first
\* and answered without has_problem for the second
C26_Witness ==
    /\ fix.pc = "returned"
    /\ Len(fix.issues) = 2
    /\ fix.results[1].outcome = "fixed"
    /\ fix.results[2].outcome = "kept_original"
    /\ \E p \in JudgeCalls(fix.issues[2]) :
          "has_problem" \notin DOMAIN fixCalls[p].answer.verdict
    /\ fix.report[1].fixed_count = 1
    /\ fix.report[1].kept_count = 1
    /\ fix.report[1].failed_count = 0

\* the index list of the issue a result of the run names
ListOf(r) == fix.issue_map[fix.results[r].issue_id].segment_indices

\* the results with outcome 'fixed' that cover segment i
FixedOn(i) == {r \in DOMAIN fix.results : fix.results[r].outcome = "fixed" /\ i \in Range(ListOf(r))}

\* the last result of a set
LastOf(R) == CHOOSE r \in R : \A q \in R : q <= r

\* every judge call made so far was given the text of the segments as they were
\* handed to fix_transcript, and no fixed transcript exists before the loop
\* over the windows has ended
JudgedOnOriginal ==
    /\ \A p \in DOMAIN fixCalls :
          fixCalls[p].op = "judge" =>
              LET l == fix.issue_map[fixCalls[p].issue[1]].segment_indices
              IN fixCalls[p].original_text = Join([k \in DOMAIN l |-> fixArgs.segments[l[k] + 1].text])
    /\ fix.pc \in {"start", "window", "extract", "whisper", "qwen3", "judge", "apply"} =>
          fix.fixed = None
    /\ fix.fixed # None => fix.w = Len(fix.windows) + 1 \/ fix.issues = << >>

\* C30 as stated: every judge call is given the text of the original segments,
\* and when two or more 'fixed' results cover a segment index, the final text
\* of the segment is the one written by the last of them: its corrected_text if
\* the index is first in that issue's list, otherwise the empty string.
C30_Original ==
    fix.pc # "idle" =>
        /\ JudgedOnOriginal
        /\ fix.pc = "returned" =>
              \A i \in 0..(Len(fixArgs.segments) - 1) :
                  Cardinality(FixedOn(i)) >= 2 =>
                      LET r == LastOf(FixedOn(i))
                      IN Some(fix.fixed[1][i + 1].text)
                           = IF ListOf(r)[1] = i THEN fix.results[r].corrected_text
                             ELSE Some(EmptyText)

\* the results with outcome 'fixed' and a corrected_text that is not null that
\* cover segment i
WrittenOn(i) == {r \in FixedOn(i) : fix.results[r].corrected_text # None}

\* C30 amended: every judge call is given the text of the original segments,
\* and when two or more 'fixed' results whose corrected_text is not null cover
\* a segment index, the final text of the segment is the one written by the
\* last of them: its corrected_text if the index is first in that issue's list
\* and does not occur in it again, otherwise the empty string.
C30_LastFixWins ==
    fix.pc # "idle" =>
        /\ JudgedOnOriginal
        /\ fix.pc = "returned" =>
              \A i \in 0..(Len(fixArgs.segments) - 1) :
                  Cardinality(WrittenOn(i)) >= 2 =>
                      LET r == LastOf(WrittenOn(i))
                      IN fix.fixed[1][i + 1].text
                           = IF ListOf(r)[1] = i /\ i \notin Range(Tail(ListOf(r)))
                             THEN fix.results[r].corrected_text[1]
                             ELSE EmptyText

\* two issues were judged on the original text and fixed; the first wrote its
\* corrected_text to segment 0, the second, of segment_indices [1, 0], blanked it
C30_Witness ==
    /\ fix.pc = "returned"
    /\ Len(fix.results) = 2
    /\ WrittenOn(0) = {1, 2}
    /\ ListOf(1) = <<0>>
    /\ ListOf(2) = <<1, 0>>
    /\ fix.results[1].corrected_text = Some(NewText)
    /\ fix.results[2].corrected_text = Some(NewText)
    /\ \E p \in JudgeCalls(fix.issues[2]) :
          fixCalls[p].original_text = fixArgs.segments[2].text \o <<" ">> \o fixArgs.segments[1].text
    /\ fix.fixed[1][1].text = EmptyText
    /\ fix.fixed[1][2].text = NewText

---------------------------------------------------------------------------
(* transcript_verifier_service.py: validate_transcript *)

RequiredKeys == {"start", "end", "speaker", "text"}

\* isinstance(v, (int, float))
IsNumber(v) == v.t = "int"

\* ValueError(message): the rule the message names and the segment index it
\* carries, None where the message carries none
ValueErrorOf(rule, index) ==
    [pc |-> "raised", exc |-> "ValueError", message |-> [rule |-> rule, index |-> index]]

\* "for i, seg in enumerate(segments)", from the i-th segment on
RECURSIVE ValidateLoop(_, _, _)
ValidateLoop(l, i, prev_start) ==
    IF i >= Len(l) THEN [pc |-> "returned"]
    ELSE LET seg == l[i + 1] IN
         IF seg.t # "dict" THEN ValueErrorOf("is not a dict", Some(i))
         ELSE IF RequiredKeys \ DOMAIN seg.d # {} THEN ValueErrorOf("missing keys", Some(i))
         ELSE IF ~IsNumber(seg.d["start"]) \/ ~IsNumber(seg.d["end"])
         THEN ValueErrorOf("has non-numeric timestamps", Some(i))
         ELSE IF seg.d["start"].n > seg.d["end"].n THEN ValueErrorOf("has start > end", Some(i))
         ELSE IF seg.d["start"].n < prev_start
         THEN ValueErrorOf("has non-monotonic start", Some(i))
         ELSE ValidateLoop(l, i + 1, seg.d["start"].n)

\* prev_start = -1.0 before the first segment
validate_transcript(segments) ==
    IF segments.t # "list" THEN ValueErrorOf("Transcript must be a list of segments", None)
    ELSE IF segments.l = << >> THEN ValueErrorOf("Transcript is empty", None)
    ELSE ValidateLoop(segments.l, 0, -1)

---------------------------------------------------------------------------
(* transcript_verifier_service.py: the heuristics *)

UpperCase ==
    <<"A", "B", "C", "D", "E", "F", "G", "H", "I", "J", "K", "L", "M",
      "N", "O", "P", "Q", "R", "S", "T", "U", "V", "W", "X", "Y", "Z">>
LowerCase ==
    <<"a", "b", "c", "d", "e", "f", "g", "h", "i", "j", "k", "l", "m",
      "n", "o", "p", "q", "r", "s", "t", "u", "v", "w", "x", "y", "z">>

\* str.isupper() and str.lower() of one character (Latin letters; the texts of
\* the model hold no Cyrillic letter)
IsUpper(c) == c \in Range(UpperCase)
Lower(s) ==
    [i \in DOMAIN s |->
        IF IsUpper(s[i]) THEN LowerCase[CHOOSE k \in DOMAIN UpperCase : UpperCase[k] = s[i]]
        ELSE s[i]]

\* round(num / den, digits) in units of 10^-digits (scale = 10^digits): ties go
\* to the even neighbour
Round(num, den, scale) ==
    LET q == (num * scale) \div den
        r == (num * scale) % den
    IN IF 2 * r > den THEN q + 1
       ELSE IF 2 * r < den THEN q
       ELSE IF q % 2 = 0 THEN q ELSE q + 1

\* Counter(ngrams).most_common(1): the most frequent element, the one met first
\* among equals
MostCommon(ngrams) ==
    LET count(x) == Cardinality({i \in DOMAIN ngrams : ngrams[i] = x})
        first == CHOOSE i \in DOMAIN ngrams :
                    /\ \A m \in DOMAIN ngrams : count(ngrams[m]) <= count(ngrams[i])
                    /\ \A m \in 1..(i - 1) : count(ngrams[m]) < count(ngrams[i])
    IN [phrase |-> ngrams[first], count |-> count(ngrams[first])]

\* "for n in range(3, 6)", from n on: the first n whose most common n-gram
\* occurs at least 3 times
RECURSIVE NgramHitHighFromSix(_, _)
NgramHitHighFromSix(words, n) ==
    IF n >= 6 THEN None
    ELSE IF Len(words) < n THEN NgramHitHighFromSix(words, n + 1)
    ELSE LET ngrams == [i \in 1..(Len(words) - n + 1) |-> Join(SubSeq(words, i, i + n - 1))]
             top == MostCommon(ngrams)
         IN IF top.count >= 3
            THEN Some([severity |-> IF top.count >= 6 THEN "high" ELSE "medium",
                       evidence |-> [repeated_phrase |-> top.phrase, repeat_count |-> top.count]])
            ELSE NgramHitHighFromSix(words, n + 1)
RECURSIVE NgramHit(_, _)
NgramHit(words, n) ==
    IF n >= 6 THEN None
    ELSE IF Len(words) < n THEN NgramHit(words, n + 1)
    ELSE LET ngrams == [i \in 1..(Len(words) - n + 1) |-> Join(SubSeq(words, i, i + n - 1))]
             top == MostCommon(ngrams)
         IN IF top.count >= 3
            THEN Some([severity |-> IF top.count >= 5 THEN "high" ELSE "medium",
                       evidence |-> [repeated_phrase |-> top.phrase, repeat_count |-> top.count]])
            ELSE NgramHit(words, n + 1)

\* the cross-segment check: word overlap with the previous segment of the same
\* speaker; overlap_ratio in thousandths
OverlapHitFromSeventy(seg_index, segments, text) ==
    IF seg_index = 0 THEN None
    ELSE LET prev == segments[seg_index].d
             seg == segments[seg_index + 1].d
             prev_words == Range(Split(Lower(Strip(prev["text"].s))))
             cur_words == Range(Split(Lower(text)))
             inter == Cardinality(prev_words \cap cur_words)
             union == Cardinality(prev_words \cup cur_words)
         IN IF prev["speaker"] # seg["speaker"] THEN None
            ELSE IF prev_words = {} \/ cur_words = {} THEN None
            ELSE IF inter * 100 >= 70 * union
            THEN Some([severity |-> IF inter * 100 > 85 * union THEN "high" ELSE "medium",
                       evidence |-> [overlap_ratio |-> Round(inter, union, 1000)]])
            ELSE None
OverlapHit(seg_index, segments, text) ==
    IF seg_index = 0 THEN None
    ELSE LET prev == segments[seg_index].d
             seg == segments[seg_index + 1].d
             prev_words == Range(Split(Lower(Strip(prev["text"].s))))
             cur_words == Range(Split(Lower(text)))
             inter == Cardinality(prev_words \cap cur_words)
             union == Cardinality(prev_words \cup cur_words)
         IN IF prev["speaker"] # seg["speaker"] THEN None
            ELSE IF prev_words = {} \/ cur_words = {} THEN None
            ELSE IF inter * 100 > 70 * union
            THEN Some([severity |-> IF inter * 100 > 85 * union THEN "high" ELSE "medium",
                       evidence |-> [overlap_ratio |-> Round(inter, union, 1000)]])
            ELSE None

_check_repetition_loop(seg_index, segments) ==
    LET text == Strip(segments[seg_index + 1].d["text"].s)
        hit == NgramHit(Split(text), 3)
    IN IF hit # None THEN hit ELSE OverlapHit(seg_index, segments, text)

\* ratios in ten-thousandths
LongTextPunctuationOnly(seg_index, segments) ==
    LET text == Strip(segments[seg_index + 1].d["text"].s)
        sentence_ends == Cardinality({i \in DOMAIN text : text[i] \in {".", "!", "?"}})
    IN IF Len(text) <= 200 THEN None
       ELSE IF sentence_ends * 1000 < 5 * Len(text)
       THEN Some([severity |-> IF sentence_ends = 0 THEN "high" ELSE "medium",
                  evidence |-> [text_length |-> Len(text),
                                punctuation_ratio |-> Round(sentence_ends, Len(text), 10000),
                                capitalization_ratio |-> 0]])
       ELSE None
_check_long_text_no_sentence_markers(seg_index, segments) ==
    LET text == Strip(segments[seg_index + 1].d["text"].s)
        sentence_ends == Cardinality({i \in DOMAIN text : text[i] \in {".", "!", "?"}})
        ws == {i \in DOMAIN text : IsSpace(text[i])}
        ws_count == Cardinality(ws)
        upper_after_ws == Cardinality({i \in ws : i + 1 <= Len(text) /\ IsUpper(text[i + 1])})
    IN IF Len(text) <= 200 THEN None
       ELSE IF sentence_ends * 1000 < 5 * Len(text) /\ upper_after_ws * 100 < 3 * Max(ws_count, 1)
       THEN Some([severity |-> IF sentence_ends = 0 THEN "high" ELSE "medium",
                  evidence |-> [text_length |-> Len(text),
                                punctuation_ratio |-> Round(sentence_ends, Len(text), 10000),
                                capitalization_ratio |->
                                    Round(upper_after_ws, Max(ws_count, 1), 10000)]])
       ELSE None

\* _ALLOWED_CHARS_RE.match(c): letters, digits, whitespace and the listed
\* punctuation (the texts of the model hold no Cyrillic letter and none of the
\* typographic marks)
Allowed(c) ==
    \/ c \in Range(UpperCase) \cup Range(LowerCase)
    \/ c \in {DigitChar(d) : d \in 0..9}
    \/ IsSpace(c)
    \/ c \in {".", ",", "!", "?", ";", ":", "-", "(", ")", "[", "]", "\"", "'"}

\* "".join(set(unexpected))[:20]: the distinct characters, here in the order of
\* their first occurrence (the texts of the model hold one kind of unexpected
\* character, so the order of the set does not show)
Distinct(s) == Pick(s, {i \in DOMAIN s : \A j \in 1..(i - 1) : s[j] # s[i]})

_check_out_of_alphabet(seg_index, segments) ==
    LET text == Strip(segments[seg_index + 1].d["text"].s)
        unexpected == SelectSeq(text, LAMBDA c : ~Allowed(c))
        sample == Distinct(unexpected)
    IN IF text = << >> THEN None
       ELSE IF Len(unexpected) * 100 > 5 * Len(text)
       THEN Some([severity |-> IF Len(unexpected) * 100 > 15 * Len(text) THEN "high"
                               ELSE IF Len(unexpected) * 100 > 10 * Len(text) THEN "medium"
                               ELSE "low",
                  evidence |-> [symbol_ratio |-> Round(Len(unexpected), Len(text), 10000),
                                unexpected_chars_sample |->
                                    SubSeq(sample, 1, IF Len(sample) < 20 THEN Len(sample) ELSE 20)]])
       ELSE None

HeuristicsLongTextFirst ==
    <<"long_text_no_sentence_markers", "repetition_loop", "out_of_alphabet_symbols">>
_HEURISTICS ==
    <<"repetition_loop", "long_text_no_sentence_markers", "out_of_alphabet_symbols">>

\* check_fn(seg_idx, segments) of the rule
CheckFn(rule_id, seg_index, segments) ==
    CASE rule_id = "repetition_loop" -> _check_repetition_loop(seg_index, segments)
      [] rule_id = "long_text_no_sentence_markers" ->
           _check_long_text_no_sentence_markers(seg_index, segments)
      [] OTHER -> _check_out_of_alphabet(seg_index, segments)

\* the two loops of run_heuristics, from rule r of segment seg_idx on
RECURSIVE HeuristicsFrom(_, _, _, _)
HeuristicsFrom(segments, seg_idx, r, issues) ==
    IF seg_idx >= Len(segments) THEN issues
    ELSE IF r > Len(_HEURISTICS) THEN HeuristicsFrom(segments, seg_idx + 1, 1, issues)
    ELSE LET result == CheckFn(_HEURISTICS[r], seg_idx, segments)
             seg == segments[seg_idx + 1].d
         IN IF result = None THEN HeuristicsFrom(segments, seg_idx, r + 1, issues)
            ELSE HeuristicsFrom(segments, seg_idx, r + 1,
                    Append(issues,
                       [issue_id |-> IssueId(Len(issues) + 1),
                        status |-> "open",
                        severity |-> result[1].severity,
                        rule_id |-> _HEURISTICS[r],
                        segment_indices |-> <<seg_idx>>,
                        time_range |-> PyDict([start |-> seg["start"].n, end |-> seg["end"].n]),
                        speaker_ids |-> <<seg["speaker"].s>>,
                        left_valid_index |-> IF seg_idx > 0 THEN Some(seg_idx - 1) ELSE None,
                        right_valid_index |-> IF seg_idx < Len(segments) - 1
                                              THEN Some(seg_idx + 1) ELSE None,
                        evidence |-> result[1].evidence,
                        llm_verdict |-> None]))

run_heuristics(segments) == HeuristicsFrom(segments, 0, 1, << >>)

---------------------------------------------------------------------------
(* transcript_verifier_service.py: run_llm_verification *)

\* float(str): the value in hundredths of a str of decimal digits, ValueError
\* for a str that is no number
RECURSIVE DigitsValue(_)
DigitsValue(cs) ==
    IF cs = << >> THEN 0
    ELSE 10 * DigitsValue(SubSeq(cs, 1, Len(cs) - 1))
         + (CHOOSE d \in 0..9 : DigitChar(d) = cs[Len(cs)])

\* float(x) of a value json.loads returned, in hundredths
Float(x) ==
    CASE x.j = "number" -> [ok |-> TRUE, value |-> x.num]
      [] x.j = "string" ->
           IF x.str # << >> /\ \A i \in DOMAIN x.str : x.str[i] \in {DigitChar(d) : d \in 0..9}
           THEN [ok |-> TRUE, value |-> 100 * DigitsValue(x.str)]
           ELSE [ok |-> FALSE, exc |-> "ValueError"]
      [] OTHER -> [ok |-> FALSE, exc |-> "TypeError"]

\* verdict_data.get(key, default)
GetOr(verdict_data, key, default) ==
    IF key \in DOMAIN verdict_data THEN verdict_data[key] ELSE default

\* the verdict of the except clause
ParseErrorVerdict(exc) ==
    [decision |-> "problem", confidence |-> 0, reason |-> "LLM response parse error: " \o exc]

\* the try block for one response of get_completion: the verdict it attaches,
\* or the exception it raises
TryVerdict(response) ==
    IF response.body = "invalid" THEN [pc |-> "raised", exc |-> "JSONDecodeError"]
    ELSE IF response.value.j # "object" THEN [pc |-> "raised", exc |-> "AttributeError"]
    ELSE LET verdict_data == response.value.obj
             confidence == Float(GetOr(verdict_data, "confidence", JNum(0)))
         IN IF ~confidence.ok THEN [pc |-> "raised", exc |-> confidence.exc]
            ELSE [pc |-> "attached",
                  verdict |-> [decision |-> GetOr(verdict_data, "decision", JStr("no_problem")).str,
                               confidence |-> confidence.value,
                               reason |-> GetOr(verdict_data, "reason", JStr("")).str]]

\* "except (json.JSONDecodeError, KeyError, ValueError)"
Caught == {"JSONDecodeError", "KeyError", "ValueError"}

\* one pass of "for issue in candidates"
VerdictFor(response) ==
    LET t == TryVerdict(response)
    IN IF t.pc = "raised" /\ t.exc \in Caught
       THEN [pc |-> "attached", verdict |-> ParseErrorVerdict(t.exc)]
       ELSE t

\* what get_completion returns: text that is not JSON, a JSON array, verdict
\* objects, and verdict objects whose confidence is a word, null or a str of
\* digits
LLMObject(decision, confidence) ==
    JsonBody(JObj([decision |-> JStr(decision), confidence |-> confidence,
                   reason |-> JStr("Test reason")]))

LLMResponses ==
    {InvalidBody,
     JsonBody(JArr(<<JNum(1), JNum(2)>>)),
     LLMObject("problem", JNum(90)),
     LLMObject("no_problem", JNum(80)),
     LLMObject("problem", JStr(<<"h", "i", "g", "h">>)),
     LLMObject("problem", JNull),
     LLMObject("no_problem", JStr(<<"1">>))}

---------------------------------------------------------------------------
(* transcript_verifier_service.py: verify_transcript *)

NormalText == <<"O", "k", ".">>

RECURSIVE Repeat(_, _)
Repeat(s, n) == IF n = 0 THEN << >> ELSE s \o Repeat(s, n - 1)

\* "a b c " * 5
LoopText == Repeat(<<"a", " ", "b", " ", "c", " ">>, 5)
SymbolText == <<"#", "#">>

VerifyTexts == {NormalText, LoopText, SymbolText}

\* _seg(start, end, text=...) of the tests
Seg(start, end, text) ==
    PyDict([start |-> PyInt(start), end |-> PyInt(end),
            speaker |-> PyStr("SPEAKER_01"), text |-> PyStr(text)])

\* the segments handed to verify_transcript: dicts with the four keys whose end
\* is at their start or before it, a str, a dict without text, and a dict whose
\* start is a str
VerifySegs ==
    {Seg(start, start + d, text) : start \in (-MaxBefore)..1, d \in {-1, 0}, text \in VerifyTexts}
    \cup {PyStr("segment"),
          PyDict([start |-> PyInt(0), end |-> PyInt(1), speaker |-> PyStr("SPEAKER_01")]),
          PyDict([start |-> PyStr(<<"0">>), end |-> PyInt(1),
                  speaker |-> PyStr("SPEAKER_01"), text |-> PyStr(NormalText)])}

VerifyInit ==
    /\ \E segments \in {PyDict(<< >>)} \cup {PyList(l) : l \in SeqsUpTo(VerifySegs, MaxVerifySegs)},
          no_llm \in BOOLEAN :
          verifyArgs = [segments |-> segments, no_llm |-> no_llm]
    /\ verify = [pc |-> "validate", issues |-> << >>, candidates |-> << >>, k |-> 0,
                 heuristics_run |-> FALSE, exc |-> None, message |-> None, report |-> None]
    /\ llmCalls = << >>
    /\ ApplyIdle
    /\ ReportIdle
    /\ FixIdle
    /\ OthersIdle

\* validate_transcript(segments)
VerifyValidate ==
    /\ verify.pc = "validate"
    /\ LET r == validate_transcript(verifyArgs.segments)
       IN verify' = IF r.pc = "raised"
                    THEN [verify EXCEPT !.pc = "raised", !.exc = Some(r.exc),
                                        !.message = Some(r.message)]
                    ELSE [verify EXCEPT !.pc = "heuristics"]
    /\ UNCHANGED <<verifyArgs, llmCalls>>
    /\ UNCHANGED <<applyVars, reportVars, fixVars, mergeVars, heurVars>>

\* issues = run_heuristics(segments), and "if issues and not no_llm"
VerifyHeuristics ==
    /\ verify.pc = "heuristics"
    /\ LET issues == run_heuristics(verifyArgs.segments.l)
       IN verify' = [verify EXCEPT !.issues = issues,
                                   !.candidates = issues,
                                   !.heuristics_run = TRUE,
                                   !.k = 1,
                                   !.pc = IF issues # << >> /\ ~verifyArgs.no_llm
                                          THEN "llm" ELSE "report"]
    /\ UNCHANGED <<verifyArgs, llmCalls>>
    /\ UNCHANGED <<applyVars, reportVars, fixVars, mergeVars, heurVars>>

\* the values run_llm_verification puts into the prompt for a candidate: the
\* text of its first segment, its rule and its evidence
VerifyPrompt(segments, issue) ==
    [flagged_text |-> Strip(segments[issue.segment_indices[1] + 1].d["text"].s),
     rule_id |-> issue.rule_id,
     evidence |-> issue.evidence]

\* run_llm_verification: the call of get_completion for candidate k and what
\* the loop body does with the response
VerifyLLMAccepting ==
    /\ verify.pc = "llm"
    /\ \E response \in LLMResponses :
          LET r == VerdictFor(response)
              prompt == VerifyPrompt(verifyArgs.segments.l, verify.issues[verify.k])
          IN /\ llmCalls' = Append(llmCalls, response @@ [prompt |-> prompt])
             /\ verify' = IF r.pc = "raised"
                          THEN [verify EXCEPT !.pc = "raised", !.exc = Some(r.exc)]
                          ELSE [verify EXCEPT !.issues[verify.k].llm_verdict = Some(r.verdict),
                                              !.issues[verify.k].status =
                                                  IF r.verdict.decision = "problem"
                                                  THEN "accepted" ELSE "open",
                                              !.k = verify.k + 1,
                                              !.pc = IF verify.k = Len(verify.issues)
                                                     THEN "report" ELSE "llm"]
    /\ UNCHANGED verifyArgs
    /\ UNCHANGED <<applyVars, reportVars, fixVars, mergeVars, heurVars>>
VerifyLLM ==
    /\ verify.pc = "llm"
    /\ \E response \in LLMResponses :
          LET r == VerdictFor(response)
              prompt == VerifyPrompt(verifyArgs.segments.l, verify.issues[verify.k])
          IN /\ llmCalls' = Append(llmCalls, response @@ [prompt |-> prompt])
             /\ verify' = IF r.pc = "raised"
                          THEN [verify EXCEPT !.pc = "raised", !.exc = Some(r.exc)]
                          ELSE [verify EXCEPT !.issues[verify.k].llm_verdict = Some(r.verdict),
                                              !.k = verify.k + 1,
                                              !.pc = IF verify.k = Len(verify.issues)
                                                     THEN "report" ELSE "llm"]
    /\ UNCHANGED verifyArgs
    /\ UNCHANGED <<applyVars, reportVars, fixVars, mergeVars, heurVars>>

\* report = generate_report(...), and the return
VerifyReport ==
    /\ verify.pc = "report"
    /\ LET r == generate_report(verifyArgs.segments.l, verify.issues)
       IN verify' = IF r.pc = "returned"
                    THEN [verify EXCEPT !.pc = "returned", !.report = Some(r.report)]
                    ELSE [verify EXCEPT !.pc = "raised", !.exc = Some(r.exc)]
    /\ UNCHANGED <<verifyArgs, llmCalls>>
    /\ UNCHANGED <<applyVars, reportVars, fixVars, mergeVars, heurVars>>

VerifyNext ==
    \/ VerifyValidate
    \/ VerifyHeuristics
    \/ VerifyLLM
    \/ VerifyReport

SpecVerify == VerifyInit /\ [][VerifyNext]_vars

---------------------------------------------------------------------------
(* Claims about verify_transcript *)

\* a response that is not parseable JSON, is no JSON object, or whose
\* confidence is not a number
Malformed(response) ==
    \/ response.body = "invalid"
    \/ response.value.j # "object"
    \/ /\ "confidence" \in DOMAIN response.value.obj
       /\ response.value.obj["confidence"].j # "number"

\* C7: for every candidate whose LLM response is malformed, run_llm_verification
\* does not raise and the candidate carries the verdict {decision: 'problem',
\* confidence: 0.0, reason: 'LLM response parse error: ...'}.
C7_LLMFailSafe ==
    \A k \in DOMAIN llmCalls :
        Malformed(llmCalls[k]) =>
            /\ ~(verify.pc = "raised" /\ k = Len(llmCalls))
            /\ verify.issues[k].llm_verdict # None
            /\ verify.issues[k].llm_verdict[1].decision = "problem"
            /\ verify.issues[k].llm_verdict[1].confidence = 0
            /\ \E exc \in Caught \cup {"AttributeError", "TypeError"} :
                  verify.issues[k].llm_verdict[1].reason = ParseErrorVerdict(exc).reason

\* a segment the specification takes for valid: a dict with the four keys,
\* numeric timestamps and start <= end
ValidSegment(seg) ==
    /\ seg.t = "dict"
    /\ RequiredKeys \subseteq DOMAIN seg.d
    /\ seg.d["start"].t = "int"
    /\ seg.d["end"].t = "int"
    /\ seg.d["start"].n <= seg.d["end"].n

\* a valid transcript: a non-empty list of valid segments whose starts do not
\* decrease
ValidTranscript(segments) ==
    /\ segments.t = "list"
    /\ segments.l # << >>
    /\ \A i \in DOMAIN segments.l : ValidSegment(segments.l[i])
    /\ \A i \in DOMAIN segments.l :
          i > 1 => segments.l[i - 1].d["start"].n <= segments.l[i].d["start"].n

\* C8: validate_transcript does not raise for a valid transcript, whatever its
\* timestamps are.
C8_ValidAccepted ==
    (verify.pc # "validate" /\ ValidTranscript(verifyArgs.segments)) =>
        ~(verify.pc = "raised" /\ ~verify.heuristics_run)

\* the transcript breaks the rule a message names, at the index the message
\* carries
RuleBroken(segments, message) ==
    LET i == message.index[1] + 1
    IN CASE message.rule = "Transcript must be a list of segments" -> segments.t # "list"
         [] message.rule = "Transcript is empty" -> segments.t = "list" /\ segments.l = << >>
         [] message.rule = "is not a dict" -> segments.l[i].t # "dict"
         [] message.rule = "missing keys" ->
              segments.l[i].t = "dict" /\ ~(RequiredKeys \subseteq DOMAIN segments.l[i].d)
         [] message.rule = "has non-numeric timestamps" ->
              segments.l[i].d["start"].t # "int" \/ segments.l[i].d["end"].t # "int"
         [] message.rule = "has start > end" ->
              segments.l[i].d["start"].n > segments.l[i].d["end"].n
         [] message.rule = "has non-monotonic start" ->
              i > 1 /\ segments.l[i].d["start"].n < segments.l[i - 1].d["start"].n

\* C9: for an input that is not a valid transcript, verify_transcript raises a
\* ValueError whose message names a rule the input breaks and the index of the
\* segment that breaks it, before any heuristic has run, before any LLM call
\* and without a report.
C9_InvalidStops ==
    (verify.pc # "validate" /\ ~ValidTranscript(verifyArgs.segments)) =>
        /\ verify.pc = "raised"
        /\ verify.exc = Some("ValueError")
        /\ RuleBroken(verifyArgs.segments, verify.message[1])
        /\ ~verify.heuristics_run
        /\ llmCalls = << >>
        /\ verify.report = None

\* the decision the LLM returned for candidate k, where it returned a verdict
\* object
Decided(k, decision) ==
    /\ llmCalls[k].body = "json"
    /\ llmCalls[k].value.j = "object"
    /\ "decision" \in DOMAIN llmCalls[k].value.obj
    /\ llmCalls[k].value.obj["decision"].str = decision
    /\ ~Malformed(llmCalls[k])

\* the status the report records for issue k: the one of its Status line and
\* the one of its fenced block
ReportStatus(k, status) ==
    /\ verify.report[1][k].status = status
    /\ verify.report[1][k].block.value.obj["status"].str = status

\* C10: in the report of a run with LLM verification, an issue for which the
\* LLM returned decision 'problem' has status 'accepted', and one for which it
\* returned 'no_problem' has status 'open'.
C10_AutoAccept ==
    verify.pc = "returned" =>
        \A k \in DOMAIN llmCalls :
            /\ Decided(k, "problem") => ReportStatus(k, "accepted")
            /\ Decided(k, "no_problem") => ReportStatus(k, "open")

\* the issues as run_heuristics returned them, before run_llm_verification
Candidates == verify.candidates

---------------------------------------------------------------------------
(* transcript_verifier_service.py: run_heuristics, called on a transcript of
   one segment, or of two where the first is a short segment of the same
   speaker *)

MaxPhraseLen == 4   \* words of a phrase
MaxTimes == 5       \* times a phrase is repeated in a text
LongLen == 250      \* characters of a long text
PadLen == 60        \* whitespace characters put before a padded long text

HeurWords == {<<"a">>, <<"b">>}

\* the concatenation of a list of strs
RECURSIVE Concat(_)
Concat(list) == IF list = << >> THEN << >> ELSE list[1] \o Concat(Tail(list))

\* the words of a text: a phrase, repeated
WordsOf(shape) == Repeat(shape.phrase, shape.times)

\* a text of words: ("a b c " * 5 of the tests) every word followed by a
\* space, or the words on lines of their own after a tab; a long text: words of
\* five letters, with or without a capital, with no full stop, with one at the
\* end or with one after every word, cut to LongLen characters of which the
\* first pad are spaces
TextOf(shape) ==
    IF shape.kind = "words"
    THEN IF shape.layout = "spaces"
         THEN Concat([k \in DOMAIN WordsOf(shape) |-> WordsOf(shape)[k] \o <<" ">>])
         ELSE <<"\t">> \o Concat([k \in DOMAIN WordsOf(shape) |-> WordsOf(shape)[k] \o <<"\n">>])
    ELSE LET word == <<IF shape.caps THEN "A" ELSE "a", "b", "c", "d", "e">>
             unit == word \o (IF shape.dots = "dense" THEN <<".">> ELSE << >>) \o <<" ">>
             ink == LongLen - shape.pad
             run == Repeat(unit, ink \div Len(unit) + 1)
         IN [k \in 1..shape.pad |-> " "]
            \o (IF shape.dots = "one" THEN SubSeq(run, 1, ink - 1) \o <<".">>
                ELSE SubSeq(run, 1, ink - 2) \o <<"d", "e">>)

HeurShapes ==
    [kind : {"words"}, phrase : SeqsUpTo(HeurWords, MaxPhraseLen) \ {<< >>},
     times : 1..MaxTimes, layout : {"spaces", "lines"}]
    \cup [kind : {"long"}, caps : BOOLEAN, dots : {"none", "one", "dense"}, pad : {0, PadLen}]

MaxDistinct == 10   \* distinct words of a segment of a pair

\* a pair of segments: the first holds the first prev letters of the alphabet as
\* its words, in upper case or not; the second, of SPEAKER_01, holds the first
\* cur letters, the whole 1 or 3 times
PairShapes ==
    [kind : {"pair"}, prev : 0..MaxDistinct, upper : BOOLEAN,
     speaker : {"SPEAKER_01", "SPEAKER_02"}, cur : 1..MaxDistinct, times : {1, 3}]

PairWords(shape) == Repeat([k \in 1..shape.cur |-> <<LowerCase[k]>>], shape.times)

PairSegments(shape) ==
    LET letters == IF shape.upper THEN UpperCase ELSE LowerCase
    IN <<PyDict([start |-> PyInt(0), end |-> PyInt(1), speaker |-> PyStr(shape.speaker),
                 text |-> PyStr(Join([k \in 1..shape.prev |-> <<letters[k]>>]))]),
         Seg(1, 2, Join(PairWords(shape)))>>

HeurInit ==
    /\ \/ \E shape \in HeurShapes,
             before \in SeqsUpTo({NormalText, <<"a", " ", "b">>, SymbolText}, 1) :
             heurArgs = [shape |-> shape,
                         segments |-> [k \in DOMAIN before |-> Seg(0, 1, before[k])]
                                      \o <<Seg(1, 2, TextOf(shape))>>]
       \/ \E shape \in PairShapes :
             heurArgs = [shape |-> shape, segments |-> PairSegments(shape)]
    /\ heurRet = [pc |-> "call"]
    /\ ApplyIdle
    /\ ReportIdle
    /\ FixIdle
    /\ VerifyIdle
    /\ MergeIdle

RunHeuristicsCall ==
    /\ heurRet.pc = "call"
    /\ heurRet' = [pc |-> "returned", issues |-> run_heuristics(heurArgs.segments)]
    /\ UNCHANGED heurArgs
    /\ UNCHANGED <<applyVars, reportVars, fixVars, verifyVars, mergeVars>>

HeurNext == RunHeuristicsCall

SpecHeuristics == HeurInit /\ [][HeurNext]_vars

---------------------------------------------------------------------------
(* Claims about the heuristics *)

\* the 0-based index of the segment that holds the text under study (the last)
Subject == Len(heurArgs.segments) - 1

\* the issues run_heuristics has returned for the segment under study and a rule
IssuesFor(rule_id) ==
    {k \in DOMAIN heurRet.issues :
        /\ heurRet.issues[k].segment_indices = <<Subject>>
        /\ heurRet.issues[k].rule_id = rule_id}

\* how often the most frequent n-gram of a list of words occurs in it
MaxCount(words, n) ==
    LET at(i) == SubSeq(words, i, i + n - 1)
        places == 1..(Len(words) - n + 1)
        count(i) == Cardinality({j \in places : at(j) = at(i)})
    IN IF places = {} THEN 0
       ELSE count(CHOOSE i \in places : \A j \in places : count(j) <= count(i))

\* the n of 3..5 for which some n-gram of the words occurs at least 3 times
Qualifying(words) == {n \in 3..5 : MaxCount(words, n) >= 3}

\* C18: a segment whose text is the 5-fold repetition of a phrase of at least 3
\* words is flagged with rule_id 'repetition_loop' and severity 'high'; in
\* general the n-gram check flags a segment iff some n-gram (n in 3..5) occurs
\* at least 3 times, and for the smallest such n the severity is 'high' iff the
\* count is at least 5, else 'medium'.
C18_RepetitionRule ==
    heurRet.pc = "returned" /\ heurArgs.shape.kind = "words" =>
        LET words == WordsOf(heurArgs.shape)
            ngram == {k \in IssuesFor("repetition_loop") :
                        "repeated_phrase" \in DOMAIN heurRet.issues[k].evidence}
        IN /\ Len(heurArgs.shape.phrase) >= 3 /\ heurArgs.shape.times = 5 =>
                 \E k \in IssuesFor("repetition_loop") : heurRet.issues[k].severity = "high"
           /\ ngram # {} <=> Qualifying(words) # {}
           /\ \A k \in ngram :
                 LET n == CHOOSE m \in Qualifying(words) : \A q \in Qualifying(words) : m <= q
                 IN /\ heurRet.issues[k].evidence.repeat_count = MaxCount(words, n)
                    /\ heurRet.issues[k].severity
                         = IF MaxCount(words, n) >= 5 THEN "high" ELSE "medium"

\* the 5-fold repetition of a phrase of three words, one word to a line, was flagged
C18_Witness ==
    /\ heurRet.pc = "returned"
    /\ heurArgs.shape.kind = "words"
    /\ heurArgs.shape.phrase = <<<<"a">>, <<"b">>, <<"b">>>>
    /\ heurArgs.shape.times = 5
    /\ heurArgs.shape.layout = "lines"
    /\ \E k \in IssuesFor("repetition_loop") :
          /\ heurRet.issues[k].severity = "high"
          /\ heurRet.issues[k].evidence.repeat_count = 5

\* the long text under study has no '.', '!' or '?'
NoSentenceEnd == heurArgs.shape.kind = "long" /\ heurArgs.shape.dots = "none"

\* C19 as stated: every 250-character segment with zero sentence-terminal
\* punctuation is flagged with rule_id 'long_text_no_sentence_markers' and
\* severity 'high', and the same segment with normal punctuation density is not
\* flagged.
C19_Original ==
    heurRet.pc = "returned" /\ heurArgs.shape.kind = "long" =>
        /\ NoSentenceEnd =>
              \E k \in IssuesFor("long_text_no_sentence_markers") :
                  heurRet.issues[k].severity = "high"
        /\ heurArgs.shape.dots = "dense" => IssuesFor("long_text_no_sentence_markers") = {}

\* C19 amended: a segment with zero sentence-terminal punctuation is flagged
\* with rule_id 'long_text_no_sentence_markers' and severity 'high' iff its
\* text, stripped of the whitespace around it, is longer than 200 characters and
\* fewer than 3% of its whitespace characters are followed by an uppercase
\* letter (a text whose words all begin with a capital is not flagged); the same
\* segment with normal punctuation density is not flagged.
C19_LongTextRule ==
    heurRet.pc = "returned" /\ heurArgs.shape.kind = "long" =>
        /\ NoSentenceEnd =>
              ((\E k \in IssuesFor("long_text_no_sentence_markers") :
                    heurRet.issues[k].severity = "high")
                 <=> (LongLen - heurArgs.shape.pad > 200 /\ ~heurArgs.shape.caps))
        /\ NoSentenceEnd =>
              \A k \in IssuesFor("long_text_no_sentence_markers") :
                  heurRet.issues[k].severity = "high"
        /\ heurArgs.shape.dots = "dense" => IssuesFor("long_text_no_sentence_markers") = {}

\* a text of LongLen characters, all of them letters in lower case and single
\* spaces, was flagged with severity 'high'
C19_Witness ==
    /\ heurRet.pc = "returned"
    /\ NoSentenceEnd
    /\ ~heurArgs.shape.caps
    /\ heurArgs.shape.pad = 0
    /\ Len(heurArgs.segments[Subject + 1].d["text"].s) = LongLen
    /\ \E k \in IssuesFor("long_text_no_sentence_markers") :
          /\ heurRet.issues[k].severity = "high"
          /\ heurRet.issues[k].evidence.text_length = LongLen

\* the 0-based indices of the segments that are part of an issue
Flagged ==
    {i \in 0..(Len(heurArgs.segments) - 1) :
        \E k \in DOMAIN heurRet.issues : i \in Range(heurRet.issues[k].segment_indices)}

\* the segments that are part of no issue
Good == (0..(Len(heurArgs.segments) - 1)) \ Flagged

\* C21: for every issue produced by run_heuristics, left_valid_index and
\* right_valid_index, when not null, are the indices of the nearest segment on
\* that side that is not part of an issue.
C21_AnchorsAreGood ==
    heurRet.pc = "returned" =>
        \A k \in DOMAIN heurRet.issues :
            LET issue == heurRet.issues[k]
                i == issue.segment_indices[1]
            IN /\ issue.left_valid_index # None =>
                     /\ issue.left_valid_index[1] \in Good
                     /\ issue.left_valid_index[1] < i
                     /\ \A j \in Good : j < i => j <= issue.left_valid_index[1]
               /\ issue.right_valid_index # None =>
                     /\ issue.right_valid_index[1] \in Good
                     /\ issue.right_valid_index[1] > i
                     /\ \A j \in Good : j > i => j >= issue.right_valid_index[1]

\* the place of a rule in the fixed order of the rules
RuleRank(rule_id) ==
    CASE rule_id = "repetition_loop" -> 1
      [] rule_id = "long_text_no_sentence_markers" -> 2
      [] rule_id = "out_of_alphabet_symbols" -> 3

\* 'ISS-' followed by k zero-padded to 3 digits, for k < 10
Numbered(k) == <<"I", "S", "S", "-", "0", "0", <<"1", "2", "3", "4", "5", "6", "7", "8", "9">>[k]>>

\* C22: the k-th issue run_heuristics returns has issue_id 'ISS-' followed by k
\* zero-padded to 3 digits; the list is ordered by segment index and, within a
\* segment, by the rule order repetition_loop, long_text_no_sentence_markers,
\* out_of_alphabet_symbols (at most one issue per segment and rule); every issue
\* has status 'open' and segment_indices = [i] for its segment i.
C22_IssueNumbering ==
    heurRet.pc = "returned" =>
        /\ \A k \in DOMAIN heurRet.issues :
              /\ heurRet.issues[k].issue_id = Numbered(k)
              /\ heurRet.issues[k].status = "open"
              /\ Len(heurRet.issues[k].segment_indices) = 1
              /\ heurRet.issues[k].segment_indices[1] \in 0..(Len(heurArgs.segments) - 1)
        /\ \A k1, k2 \in DOMAIN heurRet.issues :
              k1 < k2 =>
                  \/ heurRet.issues[k1].segment_indices[1] < heurRet.issues[k2].segment_indices[1]
                  \/ /\ heurRet.issues[k1].segment_indices = heurRet.issues[k2].segment_indices
                     /\ RuleRank(heurRet.issues[k1].rule_id) < RuleRank(heurRet.issues[k2].rule_id)

\* three issues were returned for two segments: one for the first segment, and
\* for the second the repetition issue followed by the long-text issue
C22_Witness ==
    /\ heurRet.pc = "returned"
    /\ Len(heurRet.issues) = 3
    /\ heurRet.issues[1].segment_indices = <<0>>
    /\ heurRet.issues[2].segment_indices = <<1>>
    /\ heurRet.issues[2].rule_id = "repetition_loop"
    /\ heurRet.issues[3].segment_indices = <<1>>
    /\ heurRet.issues[3].rule_id = "long_text_no_sentence_markers"
    /\ heurRet.issues[3].issue_id = Numbered(3)

\* the word sets of the two segments of a pair are 1..prev and 1..cur: the
\* size of their intersection and of their union
PairInter == IF heurArgs.shape.prev < heurArgs.shape.cur THEN heurArgs.shape.prev ELSE heurArgs.shape.cur
PairUnion == IF heurArgs.shape.prev < heurArgs.shape.cur THEN heurArgs.shape.cur ELSE heurArgs.shape.prev

\* the repetition issues of the second segment that report a word overlap
OverlapFlags ==
    {k \in IssuesFor("repetition_loop") : "overlap_ratio" \in DOMAIN heurRet.issues[k].evidence}

\* C23: the repetition check yields at most one flag per segment; when a segment
\* has an n-gram repeated at least 3 times and a word-set overlap above 0.70
\* with the previous segment of the same speaker, only {repeated_phrase,
\* repeat_count} is reported; the flag {overlap_ratio} (severity 'high' if the
\* overlap is above 0.85, else 'medium') is produced iff no n-gram qualified,
\* the previous segment has the same speaker and the overlap is strictly
\* greater than 0.70.
C23_FirstMatchWins ==
    heurRet.pc = "returned" /\ heurArgs.shape.kind = "pair" =>
        LET ngram == Qualifying(PairWords(heurArgs.shape)) # {}
            same == heurArgs.shape.speaker = "SPEAKER_01"
        IN /\ Cardinality(IssuesFor("repetition_loop")) <= 1
           /\ ngram =>
                 /\ IssuesFor("repetition_loop") # {}
                 /\ \A k \in IssuesFor("repetition_loop") :
                       DOMAIN heurRet.issues[k].evidence = {"repeated_phrase", "repeat_count"}
           /\ OverlapFlags # {} <=> (~ngram /\ same /\ PairInter * 100 > 70 * PairUnion)
           /\ \A k \in OverlapFlags :
                 /\ DOMAIN heurRet.issues[k].evidence = {"overlap_ratio"}
                 /\ heurRet.issues[k].severity
                      = IF PairInter * 100 > 85 * PairUnion THEN "high" ELSE "medium"
           /\ ~ngram /\ OverlapFlags = {} => IssuesFor("repetition_loop") = {}

\* a segment that repeats three words three times after a segment of the same
\* speaker with the same three words was flagged with the n-gram evidence
C23_Witness ==
    /\ heurRet.pc = "returned"
    /\ heurArgs.shape.kind = "pair"
    /\ heurArgs.shape.cur = 3 /\ heurArgs.shape.times = 3
    /\ heurArgs.shape.prev = 3 /\ heurArgs.shape.speaker = "SPEAKER_01"
    /\ \E k \in IssuesFor("repetition_loop") :
          /\ heurRet.issues[k].evidence.repeat_count = 3
          /\ "overlap_ratio" \notin DOMAIN heurRet.issues[k].evidence

---------------------------------------------------------------------------
(* The two commands in a row: verify_transcript writes the report of the
   heuristic issues (no_llm), then parse_report reads it and merge_windows
   builds the windows fix_transcript works on *)

MaxPipeTime == 2   \* largest timestamp of a segment
MaxPipeSegs == 3   \* segments of the transcript

\* segments with timestamps in 0..MaxPipeTime (validate_transcript rejects those
\* that end before they start), of a text no rule flags or of a repetition
PipelineSegs ==
    {Seg(start, end, text) :
        start \in 0..MaxPipeTime, end \in 0..MaxPipeTime, text \in {NormalText, LoopText}}

PipelineInit ==
    /\ \E l \in SeqsUpTo(PipelineSegs, MaxPipeSegs) :
          verifyArgs = [segments |-> PyList(l), no_llm |-> TRUE]
    /\ verify = [pc |-> "validate", issues |-> << >>, candidates |-> << >>, k |-> 0,
                 heuristics_run |-> FALSE, exc |-> None, message |-> None, report |-> None]
    /\ llmCalls = << >>
    /\ ApplyIdle
    /\ ReportIdle
    /\ FixIdle
    /\ OthersIdle

\* the segments as the fixer reads them
PlainSegments(l) ==
    [k \in DOMAIN l |-> [start |-> l[k].d["start"].n, end |-> l[k].d["end"].n,
                          speaker |-> l[k].d["speaker"].s, text |-> l[k].d["text"].s]]

\* the head of fix_transcript on the report verify_transcript returned:
\* parse_report(report_text, include_open) and merge_windows(issues, segments)
PipelineMerge ==
    /\ verify.pc = "returned"
    /\ mergeRet.pc = "idle"
    /\ \E include_open \in BOOLEAN :
          LET r == parse_report(verify.report[1], include_open)
              segments == PlainSegments(verifyArgs.segments.l)
          IN IF r.pc = "raised"
             THEN /\ mergeRet' = [pc |-> "raised", exc |-> r.exc]
                  /\ UNCHANGED mergeArgs
             ELSE /\ mergeArgs' = [issues |-> r.issues, segments |-> segments]
                  /\ mergeRet' = [pc |-> "returned",
                                  windows |-> merge_windows(r.issues, segments)]
    /\ UNCHANGED <<applyVars, reportVars, fixVars, verifyVars, heurVars>>

PipelineNext ==
    \/ VerifyValidate
    \/ VerifyHeuristics
    \/ VerifyReport
    \/ PipelineMerge

SpecPipeline == PipelineInit /\ [][PipelineNext]_vars

\* the duration fix_transcript resolves for a window: end_time, or the end of
\* the last segment when end_time is null, minus start_time
ResolvedDuration(win) ==
    (IF win.end_time = None THEN mergeArgs.segments[Len(mergeArgs.segments)].end
     ELSE win.end_time[1]) - win.start_time

\* C29: for the issues run_heuristics produces on a transcript accepted by
\* validate_transcript, passed through generate_report and parse_report, every
\* window merge_windows returns starts no later than each of its issues, ends
\* no earlier than each of them (or has a null end_time), and has a resolved
\* duration > 0.
C29_WindowCoversIssues ==
    mergeRet.pc = "returned" =>
        \A w \in DOMAIN mergeRet.windows :
            /\ \A p \in DOMAIN mergeRet.windows[w].issues :
                  LET issue == mergeRet.windows[w].issues[p]
                  IN /\ mergeRet.windows[w].start_time <= issue.time_range.d["start"]
                     /\ \/ mergeRet.windows[w].end_time = None
                        \/ issue.time_range.d["end"] <= mergeRet.windows[w].end_time[1]
            /\ ResolvedDuration(mergeRet.windows[w]) > 0

====
